---- MODULE Spec2Model ----
(***************************************************************************)
(* Decision-event authoring lifecycle of portfolio-explain:               *)
(*   app/api/routes/events.py   draft / patch / finalize / strict insert   *)
(*   app/api/routes/tickers.py  ticker-rule create / deactivate            *)
(*   app/models/decision_events.py, alembic/versions/0002_...  the table   *)
(*                                                                         *)
(* JSON values are tagged records: [t |-> tag, v |-> value].  A JSON       *)
(* object is a function from its keys to JSON values, a JSON array a       *)
(* sequence.  Floats are held in tenths (JFloat(25) is 2.5).  Timestamps     *)
(* are integers.                                                           *)
(***************************************************************************)
EXTENDS Integers, Sequences, FiniteSets, TLC

\* ---------------------------------------------------------------------
\* Bounds
\* ---------------------------------------------------------------------

MaxEvents == 2
MaxClock == 2
MaxSnapshots == 1
MaxDepth == 2
MaxAltered == 2
MaxChoices == 3

\* ---------------------------------------------------------------------
\* Enums / allowed values
\* ---------------------------------------------------------------------

EVENT_TYPES ==
    {"INITIATE", "THESIS_UPDATE", "RISK_NOTE", "RESIZE", "TICKER_RULE", "POST_MORTEM"}

INITIATE_DIRECTIONS == {"LONG", "SHORT"}

THESIS_UPDATE_WHAT_CHANGED ==
    {"FUNDAMENTALS", "VALUATION", "TECHNICALS", "POSITIONING", "MACRO", "DATA"}

RISK_TYPES ==
    {"DRAWDOWN", "LIQUIDITY", "EARNINGS", "MACRO", "THESIS_BREAK", "POSITIONING", "OTHER"}

RISK_SEVERITIES == {"LOW", "MEDIUM", "HIGH"}

RISK_ACTIONS == {"MONITOR", "HEDGE", "REDUCE", "EXIT", "NONE"}

RESIZE_REASONS == {"RISK", "THESIS", "PRICE", "CONSTRAINTS", "LIQUIDITY", "OTHER"}

TICKER_RULE_STATUS == {"ACTIVE", "INACTIVE"}

POST_MORTEM_OUTCOME == {"WIN", "LOSS", "FLAT"}

POST_MORTEM_THESIS_OUTCOME == {"CONFIRMED", "PARTIALLY_CONFIRMED", "INVALIDATED"}

POST_MORTEM_PROCESS_ADHERENCE == {"HIGH", "MEDIUM", "LOW"}

POST_MORTEM_PRIMARY_REASON == {"THESIS", "TIMING", "RISK_MGMT", "EXOGENOUS"}

STATUS_DRAFT == "DRAFT"

STATUS_FINAL == "FINAL"

\* ---------------------------------------------------------------------
\* JSON values
\* ---------------------------------------------------------------------

JNull == [t |-> "null"]

JBool(b) == [t |-> "bool", v |-> b]

JInt(n) == [t |-> "int", v |-> n]

JFloat(tenths) == [t |-> "float", v |-> tenths]

JStr(s) == [t |-> "str", v |-> s]

JList(seq) == [t |-> "list", v |-> seq]

JObj(f) == [t |-> "obj", v |-> f]

EmptyDict == <<>>

\* isinstance(x, int): bool is a subclass of int in Python.
IsInt(x) == x.t \in {"int", "bool"}

\* isinstance(x, (int, float))
IsNumber(x) == x.t \in {"int", "bool", "float"}

\* The numeric value of a number, in tenths (True is 1, False is 0).
Tenths(x) ==
    CASE x.t = "int" -> x.v * 10
      [] x.t = "float" -> x.v
      [] x.t = "bool" -> IF x.v THEN 10 ELSE 0

\* Python truthiness of a JSON value (`x or {}`, `if x:`).
Truthy(x) ==
    CASE x.t = "null" -> FALSE
      [] x.t = "bool" -> x.v
      [] x.t \in {"int", "float"} -> x.v # 0
      [] x.t = "str" -> x.v # ""
      [] x.t = "list" -> Len(x.v) > 0
      [] x.t = "obj" -> DOMAIN x.v # {}

\* ---------------------------------------------------------------------
\* Strings: str.strip() and str.upper()
\* ---------------------------------------------------------------------

Whitespace == {" ", "\t", "\n"}

RECURSIVE lstrip(_)
lstrip(s) ==
    IF Len(s) > 0 /\ SubSeq(s, 1, 1) \in Whitespace
    THEN lstrip(SubSeq(s, 2, Len(s)))
    ELSE s

RECURSIVE rstrip(_)
rstrip(s) ==
    IF Len(s) > 0 /\ SubSeq(s, Len(s), Len(s)) \in Whitespace
    THEN rstrip(SubSeq(s, 1, Len(s) - 1))
    ELSE s

strip(s) == rstrip(lstrip(s))

LowerChars == "abcdefghijklmnopqrstuvwxyz"

UpperChars == "ABCDEFGHIJKLMNOPQRSTUVWXYZ"

upper_char(c) ==
    IF \E i \in 1..Len(LowerChars) : SubSeq(LowerChars, i, i) = c
    THEN LET i == CHOOSE j \in 1..Len(LowerChars) : SubSeq(LowerChars, j, j) = c
         IN  SubSeq(UpperChars, i, i)
    ELSE c

RECURSIVE upper(_)
upper(s) ==
    IF Len(s) = 0 THEN s
    ELSE upper_char(SubSeq(s, 1, 1)) \o upper(SubSeq(s, 2, Len(s)))

\* ---------------------------------------------------------------------
\* Helpers
\* ---------------------------------------------------------------------

RECURSIVE deep_merge_replace_lists(_, _)

\* deep_merge_replace_lists taking a null at a key of the patch as the removal
\* of the key.
merge_null_removes_key(base, patch) ==
    IF patch.t = "null" THEN base
    ELSE IF base.t = "obj" /\ patch.t = "obj"
    THEN JObj([k \in ((DOMAIN base.v) \cup (DOMAIN patch.v))
                      \ {n \in DOMAIN patch.v : patch.v[n].t = "null"} |->
                IF k \in DOMAIN patch.v
                THEN IF k \in DOMAIN base.v
                     THEN deep_merge_replace_lists(base.v[k], patch.v[k])
                     ELSE patch.v[k]
                ELSE base.v[k]])
    ELSE patch

\* deep_merge_replace_lists appending a list of the patch to a list of the base.
merge_appends_lists(base, patch) ==
    IF patch.t = "null" THEN base
    ELSE IF base.t = "obj" /\ patch.t = "obj"
    THEN JObj([k \in (DOMAIN base.v) \cup (DOMAIN patch.v) |->
                IF k \in DOMAIN patch.v
                THEN IF k \in DOMAIN base.v
                     THEN deep_merge_replace_lists(base.v[k], patch.v[k])
                     ELSE patch.v[k]
                ELSE base.v[k]])
    ELSE IF base.t = "list" /\ patch.t = "list"
    THEN JList(base.v \o patch.v)
    ELSE patch

deep_merge_replace_lists(base, patch) ==
    IF patch.t = "null" THEN base
    ELSE IF base.t = "obj" /\ patch.t = "obj"
    THEN JObj([k \in (DOMAIN base.v) \cup (DOMAIN patch.v) |->
                IF k \in DOMAIN patch.v
                THEN IF k \in DOMAIN base.v
                     THEN deep_merge_replace_lists(base.v[k], patch.v[k])
                     ELSE patch.v[k]
                ELSE base.v[k]])
    ELSE patch

NoError == ""

\* `value in allowed` on a set hashes the value: a list or a dict raises
\* TypeError, which is no HTTPException and surfaces as a 500.
TypeErrorUnhashable == "TypeError: unhashable type"

FirstError(checks) ==
    IF \E i \in 1..Len(checks) : checks[i] # NoError
    THEN checks[CHOOSE i \in 1..Len(checks) :
                    /\ checks[i] # NoError
                    /\ \A j \in 1..(i - 1) : checks[j] = NoError]
    ELSE NoError

require_keys(payload, keys, label) ==
    FirstError([i \in 1..Len(keys) |->
        IF keys[i] \notin DOMAIN payload
        THEN "Missing " \o label \o " payload key '" \o keys[i] \o "'"
        ELSE NoError])

require_enum(value, allowed, label) ==
    IF value.t \in {"list", "obj"} THEN TypeErrorUnhashable
    ELSE IF value.t = "str" /\ value.v \in allowed THEN NoError
    ELSE label \o " invalid value"

require_str(value, label, allow_empty) ==
    IF value.t # "str" THEN label \o " must be a string"
    ELSE IF ~allow_empty /\ strip(value.v) = "" THEN label \o " must be non-empty"
    ELSE NoError

require_list_of_str(value, label) ==
    IF value.t # "list" \/ ~(\A i \in 1..Len(value.v) : value.v[i].t = "str")
    THEN label \o " must be an array of strings"
    ELSE NoError

require_number_or_null(value, label) ==
    IF value.t # "null" /\ ~IsNumber(value)
    THEN label \o " must be a number or null"
    ELSE NoError

validate_common(event) ==
    IF ~({"event_ts", "event_type", "payload"} \subseteq DOMAIN event)
    THEN "Missing event_ts, event_type, or payload"
    ELSE IF event["event_type"].t \in {"list", "obj"} THEN TypeErrorUnhashable
    ELSE IF ~(event["event_type"].t = "str" /\ event["event_type"].v \in EVENT_TYPES)
    THEN "Invalid event_type. Allowed: sorted(EVENT_TYPES)"
    ELSE IF event["payload"].t # "obj" THEN "payload must be a JSON object"
    ELSE IF event["event_ts"].t # "str" THEN "event_ts must be ISO string or datetime"
    ELSE NoError

required_by_type ==
    [INITIATE |-> <<"direction", "horizon_days", "entry_thesis", "key_drivers",
                    "key_risks", "invalidation_triggers", "conviction",
                    "position_intent_pct">>,
     THESIS_UPDATE |-> <<"what_changed", "update_summary", "drivers_delta",
                         "risks_delta", "triggers_delta", "conviction_delta",
                         "confidence">>,
     RISK_NOTE |-> <<"risk_type", "severity", "note", "action", "due_by">>,
     RESIZE |-> <<"from_pct", "to_pct", "reason", "rationale", "constraints">>,
     TICKER_RULE |-> <<"ticker", "rule_text", "tags", "status">>,
     POST_MORTEM |-> <<"outcome", "thesis_outcome", "process_adherence",
                       "primary_reason", "what_worked", "what_failed",
                       "rule_violations", "lesson">>]

DictTypedKeys == {"drivers_delta", "risks_delta", "triggers_delta", "constraints"}

is_missing_when_falsy(k, payload) ==
    \/ k \notin DOMAIN payload
    \/ ~Truthy(payload[k])
    \/ k \in DictTypedKeys /\ payload[k].t # "obj"

\* One pass of the loop body of compute_missing_fields: is key k appended?
is_missing(k, payload) ==
    \/ k \notin DOMAIN payload
    \/ payload[k].t = "null"
    \/ payload[k].t = "str" /\ strip(payload[k].v) = ""
    \/ payload[k].t = "list" /\ Len(payload[k].v) = 0
    \/ k \in DictTypedKeys /\ payload[k].t # "obj"

compute_missing_fields(event_type, payload) ==
    IF event_type \notin DOMAIN required_by_type
    THEN <<>>
    ELSE SelectSeq(required_by_type[event_type], LAMBDA k : is_missing(k, payload))

\* ---------------------------------------------------------------------
\* Payload validators: the detail of the first exception raised, or NoError
\* ---------------------------------------------------------------------

validate_initiate(payload) ==
    LET rk == require_keys(payload, required_by_type["INITIATE"], "INITIATE")
    IN  IF rk # NoError THEN rk
        ELSE FirstError(<<
            require_enum(payload["direction"], INITIATE_DIRECTIONS, "INITIATE.direction"),
            IF ~IsInt(payload["horizon_days"])
                THEN "INITIATE.horizon_days must be int" ELSE NoError,
            require_str(payload["entry_thesis"], "INITIATE.entry_thesis", FALSE),
            require_list_of_str(payload["key_drivers"], "INITIATE.key_drivers"),
            require_list_of_str(payload["key_risks"], "INITIATE.key_risks"),
            require_list_of_str(payload["invalidation_triggers"],
                                "INITIATE.invalidation_triggers"),
            IF ~IsInt(payload["conviction"])
                THEN "INITIATE.conviction must be int"
                ELSE IF Tenths(payload["conviction"]) < 0
                        \/ Tenths(payload["conviction"]) > 1000
                THEN "INITIATE.conviction out of range (0..100)" ELSE NoError,
            require_number_or_null(payload["position_intent_pct"],
                                   "INITIATE.position_intent_pct") >>)

thesis_delta_check_object_only(payload, delta_key) ==
    IF payload[delta_key].t # "obj"
    THEN "THESIS_UPDATE." \o delta_key \o " must be object with add/remove"
    ELSE NoError

thesis_delta_check(payload, delta_key) ==
    LET d == payload[delta_key]
        label == "THESIS_UPDATE." \o delta_key
    IN  IF d.t # "obj" \/ "add" \notin DOMAIN d.v \/ "remove" \notin DOMAIN d.v
        THEN label \o " must be object with add/remove"
        ELSE FirstError(<<require_list_of_str(d.v["add"], label \o ".add"),
                          require_list_of_str(d.v["remove"], label \o ".remove")>>)

validate_thesis_update(payload) ==
    LET rk == require_keys(payload, required_by_type["THESIS_UPDATE"], "THESIS_UPDATE")
    IN  IF rk # NoError THEN rk
        ELSE FirstError(<<
            require_enum(payload["what_changed"], THESIS_UPDATE_WHAT_CHANGED,
                         "THESIS_UPDATE.what_changed"),
            require_str(payload["update_summary"], "THESIS_UPDATE.update_summary", FALSE),
            thesis_delta_check(payload, "drivers_delta"),
            thesis_delta_check(payload, "risks_delta"),
            thesis_delta_check(payload, "triggers_delta"),
            IF ~IsInt(payload["conviction_delta"])
                THEN "THESIS_UPDATE.conviction_delta must be int"
                ELSE IF Tenths(payload["conviction_delta"]) < -200
                        \/ Tenths(payload["conviction_delta"]) > 200
                THEN "THESIS_UPDATE.conviction_delta out of range (-20..20)" ELSE NoError,
            IF ~IsNumber(payload["confidence"])
                THEN "THESIS_UPDATE.confidence must be number"
                ELSE IF Tenths(payload["confidence"]) < 0
                        \/ Tenths(payload["confidence"]) > 10
                THEN "THESIS_UPDATE.confidence out of range (0..1)" ELSE NoError >>)

validate_risk_note(payload) ==
    LET rk == require_keys(payload, required_by_type["RISK_NOTE"], "RISK_NOTE")
    IN  IF rk # NoError THEN rk
        ELSE FirstError(<<
            require_enum(payload["risk_type"], RISK_TYPES, "RISK_NOTE.risk_type"),
            require_enum(payload["severity"], RISK_SEVERITIES, "RISK_NOTE.severity"),
            require_enum(payload["action"], RISK_ACTIONS, "RISK_NOTE.action"),
            require_str(payload["note"], "RISK_NOTE.note", FALSE),
            IF payload["due_by"].t \notin {"null", "str"}
                THEN "RISK_NOTE.due_by must be YYYY-MM-DD string or null" ELSE NoError >>)

ConstraintKeys == <<"adv_cap_binding", "gross_cap_binding", "net_cap_binding">>

validate_resize(payload) ==
    LET rk == require_keys(payload, required_by_type["RESIZE"], "RESIZE")
        c == payload["constraints"]
    IN  IF rk # NoError THEN rk
        ELSE FirstError(<<
            require_number_or_null(payload["from_pct"], "RESIZE.from_pct"),
            IF ~IsNumber(payload["to_pct"])
                THEN "RESIZE.to_pct must be number" ELSE NoError,
            require_enum(payload["reason"], RESIZE_REASONS, "RESIZE.reason"),
            require_str(payload["rationale"], "RESIZE.rationale", FALSE),
            IF c.t # "obj" THEN "RESIZE.constraints must be object"
            ELSE FirstError([i \in 1..Len(ConstraintKeys) |->
                    IF ConstraintKeys[i] \notin DOMAIN c.v
                       \/ c.v[ConstraintKeys[i]].t # "bool"
                    THEN "RESIZE.constraints." \o ConstraintKeys[i] \o " must be boolean"
                    ELSE NoError]) >>)

validate_ticker_rule(payload) ==
    LET rk == require_keys(payload, required_by_type["TICKER_RULE"], "TICKER_RULE")
    IN  IF rk # NoError THEN rk
        ELSE FirstError(<<
            require_str(payload["ticker"], "TICKER_RULE.ticker", FALSE),
            require_str(payload["rule_text"], "TICKER_RULE.rule_text", FALSE),
            require_list_of_str(payload["tags"], "TICKER_RULE.tags"),
            require_enum(payload["status"], TICKER_RULE_STATUS, "TICKER_RULE.status") >>)

validate_post_mortem(payload) ==
    LET rk == require_keys(payload, required_by_type["POST_MORTEM"], "POST_MORTEM")
    IN  IF rk # NoError THEN rk
        ELSE FirstError(<<
            require_enum(payload["outcome"], POST_MORTEM_OUTCOME, "POST_MORTEM.outcome"),
            require_enum(payload["thesis_outcome"], POST_MORTEM_THESIS_OUTCOME,
                         "POST_MORTEM.thesis_outcome"),
            require_enum(payload["process_adherence"], POST_MORTEM_PROCESS_ADHERENCE,
                         "POST_MORTEM.process_adherence"),
            require_enum(payload["primary_reason"], POST_MORTEM_PRIMARY_REASON,
                         "POST_MORTEM.primary_reason"),
            require_str(payload["what_worked"], "POST_MORTEM.what_worked", FALSE),
            require_str(payload["what_failed"], "POST_MORTEM.what_failed", FALSE),
            IF payload["rule_violations"].t # "list"
               \/ ~(\A i \in 1..Len(payload["rule_violations"].v) :
                        payload["rule_violations"].v[i].t = "str")
                THEN "POST_MORTEM.rule_violations must be array of strings" ELSE NoError,
            IF payload["lesson"].t # "null"
                THEN require_str(payload["lesson"], "POST_MORTEM.lesson", FALSE)
                ELSE NoError >>)

validate_payload(event_type, payload) ==
    CASE event_type = "INITIATE" -> validate_initiate(payload)
      [] event_type = "THESIS_UPDATE" -> validate_thesis_update(payload)
      [] event_type = "RISK_NOTE" -> validate_risk_note(payload)
      [] event_type = "RESIZE" -> validate_resize(payload)
      [] event_type = "TICKER_RULE" -> validate_ticker_rule(payload)
      [] event_type = "POST_MORTEM" -> validate_post_mortem(payload)
      [] OTHER -> "Unsupported event_type"

\* ---------------------------------------------------------------------
\* Timestamps
\* ---------------------------------------------------------------------

RECURSIVE replace_Z(_)
replace_Z(s) ==
    IF Len(s) = 0 THEN s
    ELSE (IF SubSeq(s, 1, 1) = "Z" THEN "+00:00" ELSE SubSeq(s, 1, 1))
         \o replace_Z(SubSeq(s, 2, Len(s)))

\* datetime.fromisoformat on the strings of the model: the instants they denote
\* (instant 0 lies before every reading of the clock).  Any other string raises.
fromisoformat == [s \in {"2020-01-01T00:00:00+00:00"} |-> 0]

\* parse_event_ts(value), with utcnow() = clock.
parse_event_ts(value, clock) ==
    IF value.t = "null" THEN [ok |-> TRUE, ts |-> clock, detail |-> NoError]
    ELSE IF value.t = "str"
    THEN IF replace_Z(value.v) \in DOMAIN fromisoformat
         THEN [ok |-> TRUE, ts |-> fromisoformat[replace_Z(value.v)], detail |-> NoError]
         ELSE [ok |-> FALSE, ts |-> 0, detail |-> "event_ts must be ISO datetime string"]
    ELSE [ok |-> FALSE, ts |-> 0, detail |-> "event_ts must be ISO string or datetime"]

\* ---------------------------------------------------------------------
\* State
\* ---------------------------------------------------------------------

VARIABLES
    events,   \* the decision_events table: row id -> row (ids are 1..Len(events))
    now,      \* the clock read by utcnow() and by the store's now()
    last,     \* the request handled last and its response; last.repeat tells
              \* that it repeats the request before it, which had succeeded
    snapshots \* the thesis_snapshots table: row id -> row

vars == <<events, now, last, snapshots>>

\* trade_cases rows (the targets of decision_events.case_id)
Cases == {"c1", "c2"}

NoCase == "none"

NoEvent == [id |-> 0]

EventIds == 1..MaxEvents

\* DecisionEvent: the columns of one row
DecisionEvent(id, case_id, event_ts, event_type, payload, status, updated_at, created_at) ==
    [id |-> id, case_id |-> case_id, event_ts |-> event_ts, event_type |-> event_type,
     payload |-> payload, status |-> status, updated_at |-> updated_at,
     created_at |-> created_at]

\* ux_decision_events_one_draft: unique (case_id, event_type) WHERE status = 'DRAFT'
ux_decision_events_one_draft(rows) ==
    \A i, j \in 1..Len(rows) :
        (/\ rows[i].status = STATUS_DRAFT
         /\ rows[j].status = STATUS_DRAFT
         /\ rows[i].case_id = rows[j].case_id
         /\ rows[i].event_type = rows[j].event_type) => i = j

\* A table without the partial unique index.
store_accepts_without_one_draft(rows) ==
    \A i \in 1..Len(rows) : rows[i].case_id \in Cases

\* The constraints the table puts on a commit: case_id NOT NULL with a foreign
\* key to trade_cases, and the partial unique index.
store_accepts(rows) ==
    /\ \A i \in 1..Len(rows) : rows[i].case_id \in Cases
    /\ ux_decision_events_one_draft(rows)

IntegrityError == "IntegrityError"

Response(op, args, code, detail, event, missing) ==
    [op |-> op, args |-> args, code |-> code, detail |-> detail,
     event |-> event, missing_fields |-> missing,
     repeat |-> (last.op = op /\ last.args = args /\ last.code = 200)]

HTTPException(op, args, code, detail) ==
    Response(op, args, code, detail, NoEvent, <<>>)

\* `x or {}` on a payload column
or_empty(payload) == IF DOMAIN payload = {} THEN EmptyDict ELSE payload

event_with_missing_fields(op, args, de) ==
    Response(op, args, 200, NoError, de,
             compute_missing_fields(de.event_type, or_empty(de.payload)))

Init ==
    /\ events = <<>>
    /\ snapshots = <<>>
    /\ now = 1
    /\ last = [op |-> "none", args |-> <<>>, code |-> 0, detail |-> NoError,
               event |-> NoEvent, missing_fields |-> <<>>, repeat |-> FALSE]

\* Time passes.
Tick ==
    /\ now < MaxClock
    /\ now' = now + 1
    /\ UNCHANGED <<events, last, snapshots>>

\* ---------------------------------------------------------------------
\* Request inputs
\* ---------------------------------------------------------------------

\* The complete INITIATE payload (conviction 60, position_intent_pct 2.5).
InitiateComplete ==
    [direction |-> JStr("LONG"), horizon_days |-> JInt(30), entry_thesis |-> JStr("x"),
     key_drivers |-> JList(<<JStr("a")>>), key_risks |-> JList(<<JStr("b")>>),
     invalidation_triggers |-> JList(<<JStr("c")>>), conviction |-> JInt(60),
     position_intent_pct |-> JFloat(25)]

InitiateConviction150 == [InitiateComplete EXCEPT !["conviction"] = JInt(150)]

RiskNoteNullDue ==
    [risk_type |-> JStr("MACRO"), severity |-> JStr("LOW"), note |-> JStr("n"),
     action |-> JStr("NONE"), due_by |-> JNull]

InitiateDirectionList == [InitiateComplete EXCEPT !["direction"] = JList(<<JStr("LONG")>>)]

SeedA == JObj([conviction |-> JInt(150)])

IsoZ == JStr("2020-01-01T00:00:00Z")

\* An id of no trade_cases row.
UnknownCase == "c9"

\* (case_id, event_type, seed_payload, event_ts) of create-or-reuse-draft requests
DraftRequests ==
    {<<"c1", "INITIATE", JNull, JNull>>,
     <<"c1", "INITIATE", SeedA, JNull>>,
     <<"c2", " RISK_NOTE ", JNull, IsoZ>>,
     <<"c1", "BOGUS", JNull, JNull>>,
     <<"c1", "INITIATE", JList(<<JInt(1)>>), JNull>>,
     <<"c1", "INITIATE", JNull, JStr("yesterday")>>,
     <<"c1", "INITIATE", JNull, JInt(5)>>,
     <<UnknownCase, "INITIATE", JNull, JNull>>}

\* A patch whose keys are the names of columns of the row.
PatchStatusKey ==
    JObj([status |-> JStr("FINAL"), id |-> JInt(9), event_type |-> JStr("RESIZE")])

\* (case_id, payload_patch) of patch requests
PatchRequests ==
    {<<"c1", JObj(InitiateComplete)>>,
     <<"c1", JObj(InitiateDirectionList)>>,
     <<"c1", SeedA>>,
     <<"c1", JList(<<>>)>>,
     <<"c2", PatchStatusKey>>}

Envelope(event_ts, event_type, payload) ==
    [event_ts |-> event_ts, event_type |-> event_type, payload |-> payload]

\* (case_id, envelope) of strict-insert requests
AddEventRequests ==
    {"c1"} \X
    {Envelope(IsoZ, JStr("INITIATE"), JObj(InitiateComplete)),
     Envelope(IsoZ, JStr("INITIATE"), JObj(InitiateConviction150)),
     Envelope(IsoZ, JStr("RISK_NOTE"), JObj(RiskNoteNullDue)),
     Envelope(IsoZ, JStr("BOGUS"), JObj(InitiateComplete)),
     Envelope(IsoZ, JList(<<>>), JObj(InitiateComplete)),
     Envelope(IsoZ, JStr("INITIATE"), JList(<<>>)),
     Envelope(JStr("yesterday"), JStr("INITIATE"), JObj(InitiateComplete)),
     Envelope(JInt(5), JStr("INITIATE"), JObj(InitiateComplete)),
     [event_type |-> JStr("INITIATE"), payload |-> JObj(InitiateComplete)]}

\* (ticker, rule_text, tags, case_id) of ticker-rule creation requests
RuleRequests ==
    {<<" aapl", " r ", JNull, "c1">>,
     <<" aapl", " r ", JList(<<JStr(" t "), JStr(" ")>>), "c1">>,
     <<" ", " r ", JNull, "c1">>,
     <<" aapl", " ", JNull, "c1">>,
     <<" aapl", " r ", JStr("x"), "c1">>,
     <<" aapl", " r ", JNull, NoCase>>}

TickerInputs == {" aapl", "msft"}

\* ---------------------------------------------------------------------
\* Draft / Patch / Finalize
\* ---------------------------------------------------------------------

\* The rows the draft query of create_or_reuse_draft can return first:
\* the DRAFT rows of the pair with the latest updated_at.
first_draft_any_status(case_id, event_type) ==
    LET found == {i \in 1..Len(events) :
                    /\ events[i].case_id = case_id
                    /\ events[i].event_type = event_type}
    IN  {i \in found : \A j \in found : events[j].updated_at <= events[i].updated_at}

first_draft(case_id, event_type) ==
    LET found == {i \in 1..Len(events) :
                    /\ events[i].case_id = case_id
                    /\ events[i].event_type = event_type
                    /\ events[i].status = STATUS_DRAFT}
    IN  {i \in found : \A j \in found : events[j].updated_at <= events[i].updated_at}

\* create_or_reuse_draft applying the seed to an existing draft whatever its
\* payload holds.
create_draft_reapplies_seed(case_id, event_type_in, seed_in, event_ts_in) ==
    LET args == [case_id |-> case_id, event_type |-> event_type_in,
                 seed_payload |-> seed_in]
        op == "create_or_reuse_draft"
        event_type == strip(event_type_in)
        seed_payload == IF Truthy(seed_in) THEN seed_in ELSE JObj(EmptyDict)
        ts == parse_event_ts(event_ts_in, now)
    IN
    /\ UNCHANGED <<now, snapshots>>
    /\ IF event_type \notin EVENT_TYPES
       THEN /\ last' = HTTPException(op, args, 400, "Invalid event_type. Allowed: sorted(EVENT_TYPES)")
            /\ UNCHANGED events
       ELSE IF seed_payload.t # "obj"
       THEN /\ last' = HTTPException(op, args, 400, "seed_payload must be a JSON object")
            /\ UNCHANGED events
       ELSE IF ~ts.ok
       THEN /\ last' = HTTPException(op, args, 400, ts.detail)
            /\ UNCHANGED events
       ELSE IF first_draft(case_id, event_type) # {}
       THEN \E id \in first_draft(case_id, event_type) :
              LET existing == events[id]
                  existing_payload == or_empty(existing.payload)
              IN  IF Truthy(seed_payload)
                  THEN LET de == [existing EXCEPT
                                    !.payload = deep_merge_replace_lists(
                                                    JObj(existing_payload), seed_payload).v,
                                    !.updated_at = now]
                       IN  /\ events' = [events EXCEPT ![id] = de]
                           /\ last' = event_with_missing_fields(op, args, de)
                  ELSE /\ UNCHANGED events
                       /\ last' = event_with_missing_fields(op, args, existing)
       ELSE LET de == DecisionEvent(Len(events) + 1, case_id, ts.ts, event_type,
                                    seed_payload.v, STATUS_DRAFT, now, now)
            IN  IF store_accepts(Append(events, de))
                THEN /\ Len(events) < MaxEvents
                     /\ events' = Append(events, de)
                     /\ last' = event_with_missing_fields(op, args, de)
                ELSE /\ UNCHANGED events
                     /\ last' = HTTPException(op, args, 500, IntegrityError)

\* create_or_reuse_draft inserting a new DRAFT without looking for an existing
\* one, into a table that lacks the partial unique index.
create_draft_without_lookup(case_id, event_type_in, seed_in, event_ts_in) ==
    LET args == [case_id |-> case_id, event_type |-> event_type_in,
                 seed_payload |-> seed_in]
        op == "create_or_reuse_draft"
        event_type == strip(event_type_in)
        seed_payload == IF Truthy(seed_in) THEN seed_in ELSE JObj(EmptyDict)
        ts == parse_event_ts(event_ts_in, now)
    IN
    /\ UNCHANGED <<now, snapshots>>
    /\ IF event_type \notin EVENT_TYPES
       THEN /\ last' = HTTPException(op, args, 400, "Invalid event_type. Allowed: sorted(EVENT_TYPES)")
            /\ UNCHANGED events
       ELSE IF seed_payload.t # "obj"
       THEN /\ last' = HTTPException(op, args, 400, "seed_payload must be a JSON object")
            /\ UNCHANGED events
       ELSE IF ~ts.ok
       THEN /\ last' = HTTPException(op, args, 400, ts.detail)
            /\ UNCHANGED events
       ELSE LET de == DecisionEvent(Len(events) + 1, case_id, ts.ts, event_type,
                                    seed_payload.v, STATUS_DRAFT, now, now)
            IN  IF case_id \in Cases
                THEN /\ Len(events) < MaxEvents
                     /\ events' = Append(events, de)
                     /\ last' = event_with_missing_fields(op, args, de)
                ELSE /\ UNCHANGED events
                     /\ last' = HTTPException(op, args, 500, IntegrityError)

\* create_or_reuse_draft giving a reused draft the event_ts of the request.
create_draft_resets_event_ts(case_id, event_type_in, seed_in, event_ts_in) ==
    LET args == [case_id |-> case_id, event_type |-> event_type_in,
                 seed_payload |-> seed_in]
        op == "create_or_reuse_draft"
        event_type == strip(event_type_in)
        seed_payload == IF Truthy(seed_in) THEN seed_in ELSE JObj(EmptyDict)
        ts == parse_event_ts(event_ts_in, now)
    IN
    /\ UNCHANGED <<now, snapshots>>
    /\ IF event_type \notin EVENT_TYPES
       THEN /\ last' = HTTPException(op, args, 400, "Invalid event_type. Allowed: sorted(EVENT_TYPES)")
            /\ UNCHANGED events
       ELSE IF seed_payload.t # "obj"
       THEN /\ last' = HTTPException(op, args, 400, "seed_payload must be a JSON object")
            /\ UNCHANGED events
       ELSE IF ~ts.ok
       THEN /\ last' = HTTPException(op, args, 400, ts.detail)
            /\ UNCHANGED events
       ELSE IF first_draft(case_id, event_type) # {}
       THEN \E id \in first_draft(case_id, event_type) :
              LET existing == [events[id] EXCEPT !.event_ts = ts.ts]
                  existing_payload == or_empty(existing.payload)
              IN  IF existing_payload = EmptyDict /\ Truthy(seed_payload)
                  THEN LET de == [existing EXCEPT
                                    !.payload = deep_merge_replace_lists(
                                                    JObj(existing_payload), seed_payload).v,
                                    !.updated_at = now]
                       IN  /\ events' = [events EXCEPT ![id] = de]
                           /\ last' = event_with_missing_fields(op, args, de)
                  ELSE /\ events' = [events EXCEPT ![id] = existing]
                       /\ last' = event_with_missing_fields(op, args, existing)
       ELSE LET de == DecisionEvent(Len(events) + 1, case_id, ts.ts, event_type,
                                    seed_payload.v, STATUS_DRAFT, now, now)
            IN  IF store_accepts(Append(events, de))
                THEN /\ Len(events) < MaxEvents
                     /\ events' = Append(events, de)
                     /\ last' = event_with_missing_fields(op, args, de)
                ELSE /\ UNCHANGED events
                     /\ last' = HTTPException(op, args, 500, IntegrityError)

create_or_reuse_draft(case_id, event_type_in, seed_in, event_ts_in) ==
    LET args == [case_id |-> case_id, event_type |-> event_type_in,
                 seed_payload |-> seed_in]
        op == "create_or_reuse_draft"
        event_type == strip(event_type_in)
        seed_payload == IF Truthy(seed_in) THEN seed_in ELSE JObj(EmptyDict)
        ts == parse_event_ts(event_ts_in, now)
    IN
    /\ UNCHANGED <<now, snapshots>>
    /\ IF event_type \notin EVENT_TYPES
       THEN /\ last' = HTTPException(op, args, 400, "Invalid event_type. Allowed: sorted(EVENT_TYPES)")
            /\ UNCHANGED events
       ELSE IF seed_payload.t # "obj"
       THEN /\ last' = HTTPException(op, args, 400, "seed_payload must be a JSON object")
            /\ UNCHANGED events
       ELSE IF ~ts.ok
       THEN /\ last' = HTTPException(op, args, 400, ts.detail)
            /\ UNCHANGED events
       ELSE IF first_draft(case_id, event_type) # {}
       THEN \E id \in first_draft(case_id, event_type) :
              LET existing == events[id]
                  existing_payload == or_empty(existing.payload)
              IN  IF existing_payload = EmptyDict /\ Truthy(seed_payload)
                  THEN LET de == [existing EXCEPT
                                    !.payload = deep_merge_replace_lists(
                                                    JObj(existing_payload), seed_payload).v,
                                    !.updated_at = now]
                       IN  /\ events' = [events EXCEPT ![id] = de]
                           /\ last' = event_with_missing_fields(op, args, de)
                  ELSE /\ UNCHANGED events
                       /\ last' = event_with_missing_fields(op, args, existing)
       ELSE LET de == DecisionEvent(Len(events) + 1, case_id, ts.ts, event_type,
                                    seed_payload.v, STATUS_DRAFT, now, now)
            IN  IF store_accepts(Append(events, de))
                THEN /\ Len(events) < MaxEvents
                     /\ events' = Append(events, de)
                     /\ last' = event_with_missing_fields(op, args, de)
                ELSE /\ UNCHANGED events
                     /\ last' = HTTPException(op, args, 500, IntegrityError)

\* The lookup of patch_draft_event and finalize_event by id alone.
find_event_in_any_case(event_id, case_id) ==
    {i \in 1..Len(events) : events[i].id = event_id}

\* The row the query of patch_draft_event and finalize_event returns.
find_event(event_id, case_id) ==
    {i \in 1..Len(events) : events[i].id = event_id /\ events[i].case_id = case_id}

\* patch_draft_event without the check that the event is a DRAFT.
patch_without_status_check(case_id, event_id, payload_patch) ==
    LET args == [case_id |-> case_id, event_id |-> event_id]
        op == "patch_draft_event"
    IN
    /\ UNCHANGED <<now, snapshots>>
    /\ IF payload_patch.t # "obj"
       THEN /\ last' = HTTPException(op, args, 400, "payload_patch must be a JSON object")
            /\ UNCHANGED events
       ELSE IF find_event(event_id, case_id) = {}
       THEN /\ last' = HTTPException(op, args, 404, "Not found")
            /\ UNCHANGED events
       ELSE LET current == or_empty(events[event_id].payload)
                de == [events[event_id] EXCEPT
                         !.payload = deep_merge_replace_lists(JObj(current), payload_patch).v,
                         !.updated_at = now]
            IN  /\ events' = [events EXCEPT ![event_id] = de]
                /\ last' = event_with_missing_fields(op, args, de)

\* patch_draft_event storing the patch in place of the merged payload.
patch_replaces_payload(case_id, event_id, payload_patch) ==
    LET args == [case_id |-> case_id, event_id |-> event_id]
        op == "patch_draft_event"
    IN
    /\ UNCHANGED <<now, snapshots>>
    /\ IF payload_patch.t # "obj"
       THEN /\ last' = HTTPException(op, args, 400, "payload_patch must be a JSON object")
            /\ UNCHANGED events
       ELSE IF find_event(event_id, case_id) = {}
       THEN /\ last' = HTTPException(op, args, 404, "Not found")
            /\ UNCHANGED events
       ELSE IF events[event_id].status # STATUS_DRAFT
       THEN /\ last' = HTTPException(op, args, 409, "Only DRAFT events can be patched")
            /\ UNCHANGED events
       ELSE LET current == or_empty(events[event_id].payload)
                de == [events[event_id] EXCEPT
                         !.payload = payload_patch.v,
                         !.updated_at = now]
            IN  /\ events' = [events EXCEPT ![event_id] = de]
                /\ last' = event_with_missing_fields(op, args, de)

patch_draft_event(case_id, event_id, payload_patch) ==
    LET args == [case_id |-> case_id, event_id |-> event_id]
        op == "patch_draft_event"
    IN
    /\ UNCHANGED <<now, snapshots>>
    /\ IF payload_patch.t # "obj"
       THEN /\ last' = HTTPException(op, args, 400, "payload_patch must be a JSON object")
            /\ UNCHANGED events
       ELSE IF find_event(event_id, case_id) = {}
       THEN /\ last' = HTTPException(op, args, 404, "Not found")
            /\ UNCHANGED events
       ELSE IF events[event_id].status # STATUS_DRAFT
       THEN /\ last' = HTTPException(op, args, 409, "Only DRAFT events can be patched")
            /\ UNCHANGED events
       ELSE LET current == or_empty(events[event_id].payload)
                de == [events[event_id] EXCEPT
                         !.payload = deep_merge_replace_lists(JObj(current), payload_patch).v,
                         !.updated_at = now]
            IN  /\ events' = [events EXCEPT ![event_id] = de]
                /\ last' = event_with_missing_fields(op, args, de)

MissingFieldsError == "missing_fields"

\* finalize_event without the call of validate_payload.
finalize_without_validation(case_id, event_id) ==
    LET args == [case_id |-> case_id, event_id |-> event_id]
        op == "finalize_event"
    IN
    /\ UNCHANGED <<now, snapshots>>
    /\ IF find_event(event_id, case_id) = {}
       THEN /\ last' = HTTPException(op, args, 404, "Not found")
            /\ UNCHANGED events
       ELSE IF events[event_id].status # STATUS_DRAFT
       THEN /\ last' = HTTPException(op, args, 409, "Only DRAFT events can be finalized")
            /\ UNCHANGED events
       ELSE LET payload == or_empty(events[event_id].payload)
                missing == compute_missing_fields(events[event_id].event_type, payload)
                invalid == NoError
                de == [events[event_id] EXCEPT !.status = STATUS_FINAL, !.updated_at = now]
            IN  IF missing # <<>>
                THEN /\ last' = Response(op, args, 409, MissingFieldsError, NoEvent, missing)
                     /\ UNCHANGED events
                ELSE IF invalid = TypeErrorUnhashable
                THEN /\ last' = HTTPException(op, args, 500, invalid)
                     /\ UNCHANGED events
                ELSE IF invalid # NoError
                THEN /\ last' = HTTPException(op, args, 400, invalid)
                     /\ UNCHANGED events
                ELSE /\ events' = [events EXCEPT ![event_id] = de]
                     /\ last' = Response(op, args, 200, NoError, de, <<>>)

\* finalize_event without the missing-fields check, leaving incomplete
\* payloads to require_keys.
finalize_without_missing_check(case_id, event_id) ==
    LET args == [case_id |-> case_id, event_id |-> event_id]
        op == "finalize_event"
    IN
    /\ UNCHANGED <<now, snapshots>>
    /\ IF find_event(event_id, case_id) = {}
       THEN /\ last' = HTTPException(op, args, 404, "Not found")
            /\ UNCHANGED events
       ELSE IF events[event_id].status # STATUS_DRAFT
       THEN /\ last' = HTTPException(op, args, 409, "Only DRAFT events can be finalized")
            /\ UNCHANGED events
       ELSE LET payload == or_empty(events[event_id].payload)
                missing == <<>>
                invalid == validate_payload(events[event_id].event_type, payload)
                de == [events[event_id] EXCEPT !.status = STATUS_FINAL, !.updated_at = now]
            IN  IF missing # <<>>
                THEN /\ last' = Response(op, args, 409, MissingFieldsError, NoEvent, missing)
                     /\ UNCHANGED events
                ELSE IF invalid = TypeErrorUnhashable
                THEN /\ last' = HTTPException(op, args, 500, invalid)
                     /\ UNCHANGED events
                ELSE IF invalid # NoError
                THEN /\ last' = HTTPException(op, args, 400, invalid)
                     /\ UNCHANGED events
                ELSE /\ events' = [events EXCEPT ![event_id] = de]
                     /\ last' = Response(op, args, 200, NoError, de, <<>>)

\* finalize_event without the assignment of updated_at.
finalize_without_updated_at(case_id, event_id) ==
    LET args == [case_id |-> case_id, event_id |-> event_id]
        op == "finalize_event"
    IN
    /\ UNCHANGED <<now, snapshots>>
    /\ IF find_event(event_id, case_id) = {}
       THEN /\ last' = HTTPException(op, args, 404, "Not found")
            /\ UNCHANGED events
       ELSE IF events[event_id].status # STATUS_DRAFT
       THEN /\ last' = HTTPException(op, args, 409, "Only DRAFT events can be finalized")
            /\ UNCHANGED events
       ELSE LET payload == or_empty(events[event_id].payload)
                missing == compute_missing_fields(events[event_id].event_type, payload)
                invalid == validate_payload(events[event_id].event_type, payload)
                de == [events[event_id] EXCEPT !.status = STATUS_FINAL]
            IN  IF missing # <<>>
                THEN /\ last' = Response(op, args, 409, MissingFieldsError, NoEvent, missing)
                     /\ UNCHANGED events
                ELSE IF invalid = TypeErrorUnhashable
                THEN /\ last' = HTTPException(op, args, 500, invalid)
                     /\ UNCHANGED events
                ELSE IF invalid # NoError
                THEN /\ last' = HTTPException(op, args, 400, invalid)
                     /\ UNCHANGED events
                ELSE /\ events' = [events EXCEPT ![event_id] = de]
                     /\ last' = Response(op, args, 200, NoError, de, <<>>)

finalize_event(case_id, event_id) ==
    LET args == [case_id |-> case_id, event_id |-> event_id]
        op == "finalize_event"
    IN
    /\ UNCHANGED <<now, snapshots>>
    /\ IF find_event(event_id, case_id) = {}
       THEN /\ last' = HTTPException(op, args, 404, "Not found")
            /\ UNCHANGED events
       ELSE IF events[event_id].status # STATUS_DRAFT
       THEN /\ last' = HTTPException(op, args, 409, "Only DRAFT events can be finalized")
            /\ UNCHANGED events
       ELSE LET payload == or_empty(events[event_id].payload)
                missing == compute_missing_fields(events[event_id].event_type, payload)
                invalid == validate_payload(events[event_id].event_type, payload)
                de == [events[event_id] EXCEPT !.status = STATUS_FINAL, !.updated_at = now]
            IN  IF missing # <<>>
                THEN /\ last' = Response(op, args, 409, MissingFieldsError, NoEvent, missing)
                     /\ UNCHANGED events
                ELSE IF invalid = TypeErrorUnhashable
                THEN /\ last' = HTTPException(op, args, 500, invalid)
                     /\ UNCHANGED events
                ELSE IF invalid # NoError
                THEN /\ last' = HTTPException(op, args, 400, invalid)
                     /\ UNCHANGED events
                ELSE /\ events' = [events EXCEPT ![event_id] = de]
                     /\ last' = Response(op, args, 200, NoError, de, <<>>)

\* ---------------------------------------------------------------------
\* Legacy strict insert
\* ---------------------------------------------------------------------

\* add_event without the call of validate_payload.
add_event_without_payload_validation(case_id, event) ==
    LET args == [case_id |-> case_id]
        op == "add_event"
        common == validate_common(event)
        invalid == NoError
        ts == parse_event_ts(event["event_ts"], now)
        de == DecisionEvent(Len(events) + 1, case_id, ts.ts, event["event_type"].v,
                            event["payload"].v, STATUS_FINAL, now, now)
    IN
    /\ UNCHANGED <<now, snapshots>>
    /\ IF common = TypeErrorUnhashable
       THEN /\ last' = HTTPException(op, args, 500, common)
            /\ UNCHANGED events
       ELSE IF common # NoError
       THEN /\ last' = HTTPException(op, args, 400, common)
            /\ UNCHANGED events
       ELSE IF invalid = TypeErrorUnhashable
       THEN /\ last' = HTTPException(op, args, 500, invalid)
            /\ UNCHANGED events
       ELSE IF invalid # NoError
       THEN /\ last' = HTTPException(op, args, 400, invalid)
            /\ UNCHANGED events
       ELSE IF ~ts.ok
       THEN /\ last' = HTTPException(op, args, 400, ts.detail)
            /\ UNCHANGED events
       ELSE IF store_accepts(Append(events, de))
       THEN /\ Len(events) < MaxEvents
            /\ events' = Append(events, de)
            /\ last' = Response(op, args, 200, NoError, de, <<>>)
       ELSE /\ UNCHANGED events
            /\ last' = HTTPException(op, args, 500, IntegrityError)

add_event(case_id, event) ==
    LET args == [case_id |-> case_id]
        op == "add_event"
        common == validate_common(event)
        invalid == validate_payload(event["event_type"].v, event["payload"].v)
        ts == parse_event_ts(event["event_ts"], now)
        de == DecisionEvent(Len(events) + 1, case_id, ts.ts, event["event_type"].v,
                            event["payload"].v, STATUS_FINAL, now, now)
    IN
    /\ UNCHANGED <<now, snapshots>>
    /\ IF common = TypeErrorUnhashable
       THEN /\ last' = HTTPException(op, args, 500, common)
            /\ UNCHANGED events
       ELSE IF common # NoError
       THEN /\ last' = HTTPException(op, args, 400, common)
            /\ UNCHANGED events
       ELSE IF invalid = TypeErrorUnhashable
       THEN /\ last' = HTTPException(op, args, 500, invalid)
            /\ UNCHANGED events
       ELSE IF invalid # NoError
       THEN /\ last' = HTTPException(op, args, 400, invalid)
            /\ UNCHANGED events
       ELSE IF ~ts.ok
       THEN /\ last' = HTTPException(op, args, 400, ts.detail)
            /\ UNCHANGED events
       ELSE IF store_accepts(Append(events, de))
       THEN /\ Len(events) < MaxEvents
            /\ events' = Append(events, de)
            /\ last' = Response(op, args, 200, NoError, de, <<>>)
       ELSE /\ UNCHANGED events
            /\ last' = HTTPException(op, args, 500, IntegrityError)

\* The orders in which ORDER BY event_ts ASC may return the rows ids: every
\* arrangement with event_ts non-decreasing (rows of equal event_ts come in
\* an order the store chooses).
order_by_event_ts_asc(ids) ==
    {order \in [1..Cardinality(ids) -> ids] :
        /\ \A j, k \in DOMAIN order : j # k => order[j] # order[k]
        /\ \A j, k \in DOMAIN order :
              j < k => events[order[j]].event_ts <= events[order[k]].event_ts}

\* The response of a route that returns a list of events.
ListResponse(op, args, rows) ==
    [op |-> op, args |-> args, code |-> 200, detail |-> NoError,
     event |-> NoEvent, missing_fields |-> <<>>,
     repeat |-> (last.op = op /\ last.args = args /\ last.code = 200),
     events |-> rows]

\* get_events returning the events of the case whatever their status.
get_events_without_status_filter(case_id) ==
    LET found == {i \in 1..Len(events) : events[i].case_id = case_id}
    IN  /\ UNCHANGED <<now, events, snapshots>>
        /\ \E order \in order_by_event_ts_asc(found) :
              last' = ListResponse("get_events", [case_id |-> case_id],
                                   [k \in DOMAIN order |-> events[order[k]]])

get_events(case_id) ==
    LET found == {i \in 1..Len(events) :
                    /\ events[i].case_id = case_id
                    /\ events[i].status = STATUS_FINAL}
    IN  /\ UNCHANGED <<now, events, snapshots>>
        /\ \E order \in order_by_event_ts_asc(found) :
              last' = ListResponse("get_events", [case_id |-> case_id],
                                   [k \in DOMAIN order |-> events[order[k]]])

\* ---------------------------------------------------------------------
\* Ticker rules
\* ---------------------------------------------------------------------

\* [s.strip() for s in tags if str(s).strip()]
RECURSIVE strip_tags(_)
strip_tags(tags) ==
    IF Len(tags) = 0 THEN <<>>
    ELSE (IF strip(Head(tags).v) # "" THEN <<JStr(strip(Head(tags).v))>> ELSE <<>>)
         \o strip_tags(Tail(tags))

create_ticker_rule(ticker, rule_text_in, tags_in, case_id) ==
    LET args == [ticker |-> ticker, case_id |-> case_id]
        op == "create_ticker_rule"
        t == upper(strip(ticker))
        rule_text == strip(rule_text_in)
        tags == IF tags_in.t = "null" THEN JList(<<>>) ELSE tags_in
        ev == DecisionEvent(Len(events) + 1, case_id, now, "TICKER_RULE",
                            [ticker |-> JStr(t), rule_text |-> JStr(rule_text),
                             tags |-> JList(strip_tags(tags.v)),
                             status |-> JStr("ACTIVE")],
                            STATUS_FINAL, now, now)
    IN
    /\ UNCHANGED <<now, snapshots>>
    /\ IF t = ""
       THEN /\ last' = HTTPException(op, args, 400, "ticker is required")
            /\ UNCHANGED events
       ELSE IF rule_text = ""
       THEN /\ last' = HTTPException(op, args, 400, "rule_text is required")
            /\ UNCHANGED events
       ELSE IF require_list_of_str(tags, "tags") # NoError
       THEN /\ last' = HTTPException(op, args, 400, "tags must be an array of strings")
            /\ UNCHANGED events
       ELSE IF store_accepts(Append(events, ev))
       THEN /\ Len(events) < MaxEvents
            /\ events' = Append(events, ev)
            /\ last' = Response(op, args, 200, NoError, ev, <<>>)
       ELSE /\ UNCHANGED events
            /\ last' = HTTPException(op, args, 500, IntegrityError)

\* deactivate_ticker_rule writing "INACTIVE" to the status column of the row
\* instead of the status key of the payload.
deactivate_sets_row_status(ticker, event_id) ==
    LET args == [ticker |-> ticker, event_id |-> event_id]
        op == "deactivate_ticker_rule"
        t == upper(strip(ticker))
    IN
    /\ UNCHANGED <<now, snapshots>>
    /\ IF event_id \notin 1..Len(events) \/ events[event_id].event_type # "TICKER_RULE"
       THEN /\ last' = HTTPException(op, args, 404, "rule not found")
            /\ UNCHANGED events
       ELSE LET old == or_empty(events[event_id].payload)
                ev == IF events[event_id].status = "INACTIVE"
                      THEN events[event_id]
                      ELSE [events[event_id] EXCEPT !.status = "INACTIVE",
                                                    !.updated_at = now]
            IN  IF ~("ticker" \in DOMAIN old /\ old["ticker"] = JStr(t))
                THEN /\ last' = HTTPException(op, args, 400, "ticker mismatch")
                     /\ UNCHANGED events
                ELSE /\ events' = [events EXCEPT ![event_id] = ev]
                     /\ last' = Response(op, args, 200, NoError, ev, <<>>)

deactivate_ticker_rule(ticker, event_id) ==
    LET args == [ticker |-> ticker, event_id |-> event_id]
        op == "deactivate_ticker_rule"
        t == upper(strip(ticker))
    IN
    /\ UNCHANGED <<now, snapshots>>
    /\ IF event_id \notin 1..Len(events) \/ events[event_id].event_type # "TICKER_RULE"
       THEN /\ last' = HTTPException(op, args, 404, "rule not found")
            /\ UNCHANGED events
       ELSE LET old == or_empty(events[event_id].payload)
                payload == [k \in DOMAIN old \cup {"status"} |->
                              IF k = "status" THEN JStr("INACTIVE") ELSE old[k]]
                \* the UPDATE is emitted, and onupdate=now() applied, only when
                \* the payload differs from the loaded one
                ev == IF payload = events[event_id].payload
                      THEN events[event_id]
                      ELSE [events[event_id] EXCEPT !.payload = payload,
                                                    !.updated_at = now]
            IN  IF ~("ticker" \in DOMAIN old /\ old["ticker"] = JStr(t))
                THEN /\ last' = HTTPException(op, args, 400, "ticker mismatch")
                     /\ UNCHANGED events
                ELSE /\ events' = [events EXCEPT ![event_id] = ev]
                     /\ last' = Response(op, args, 200, NoError, ev, <<>>)

\* ---------------------------------------------------------------------
\* Specification
\* ---------------------------------------------------------------------

\* ---------------------------------------------------------------------
\* Thesis snapshots and replay
\* ---------------------------------------------------------------------

\* trade_cases.ticker of the cases
trade_case_ticker == [c \in Cases |-> IF c = "c1" THEN "AAPL" ELSE "MSFT"]

\* market_prices_daily, a table this program only reads
market_prices_daily == {[ticker |-> "AAPL", date |-> 0, close |-> JFloat(15)]}

\* datetime.date(): the day an instant falls in, two instants to the day
date(ts) == ts \div 2

\* (case_id, asof) of the thesis requests
ThesisRequests == {<<"c1", 0>>, <<"c1", 2>>, <<UnknownCase, 2>>}

ThesisSnapshot(id, case_id, asof_ts, compiled_json, narrative, created_at) ==
    [id |-> id, case_id |-> case_id, asof_ts |-> asof_ts,
     compiled_json |-> compiled_json, narrative |-> narrative,
     model |-> "stub", created_at |-> created_at]

NoSnapshot == [id |-> 0]

\* The decision events compile_thesis and replay query: those of the case
\* with event_ts <= asof.
thesis_events(case_id, asof) ==
    {i \in 1..Len(events) :
        events[i].case_id = case_id /\ events[i].event_ts <= asof}

\* The market row, if any, of the latest date up to asof.date().
latest_market(ticker, asof) ==
    LET upto == {mp \in market_prices_daily :
                    mp.ticker = ticker /\ mp.date <= date(asof)}
    IN  {mp \in upto : \A other \in upto : other.date <= mp.date}

market_summary(mps) ==
    IF mps = {} THEN JNull
    ELSE LET mp == CHOOSE x \in mps : TRUE
         IN  JObj([date |-> JInt(mp.date), close |-> mp.close])

\* The response of a thesis route.
ThesisResponse(op, args, body) ==
    [op |-> op, args |-> args, code |-> 200, detail |-> NoError,
     event |-> NoEvent, missing_fields |-> <<>>,
     repeat |-> (last.op = op /\ last.args = args /\ last.code = 200),
     body |-> body]

\* TradeCase declares its key as case_id, not id, and the declarative Base
\* is outside the sources: whether the expression TradeCase.id evaluates or
\* raises AttributeError is left open, request by request.
AttributeError == "AttributeError"

compile_thesis(case_id, asof) ==
    LET args == [case_id |-> case_id, asof |-> asof]
        op == "compile_thesis"
    IN
    /\ UNCHANGED <<now, events>>
    /\ \/ /\ last' = HTTPException(op, args, 500, AttributeError)
          /\ UNCHANGED snapshots
       \/ IF case_id \notin Cases
          THEN /\ last' = HTTPException(op, args, 404, "Case not found")
               /\ UNCHANGED snapshots
          ELSE \E order \in order_by_event_ts_asc(thesis_events(case_id, asof)) :
                 LET ticker == trade_case_ticker[case_id]
                     event_types == [k \in DOMAIN order |-> events[order[k]].event_type]
                     compiled ==
                       [thesis |-> [ticker |-> ticker, event_types |-> event_types],
                        risks |-> IF Len(event_types) > 0
                                  THEN <<"market risk", "liquidity risk">> ELSE <<>>,
                        triggers |-> IF \E k \in DOMAIN event_types : event_types[k] = "CLOSE"
                                     THEN <<"exit">> ELSE <<"monitor">>,
                        confidence |-> IF Len(order) > 0 THEN JFloat(7) ELSE JFloat(4),
                        market |-> market_summary(latest_market(ticker, asof))]
                     narrative == [n_events |-> Len(order), asof |-> asof,
                                   ticker |-> ticker]
                     snapshot == ThesisSnapshot(Len(snapshots) + 1, case_id, asof,
                                                compiled, narrative, now)
                 IN  /\ Len(snapshots) < MaxSnapshots
                     /\ snapshots' = Append(snapshots, snapshot)
                     /\ last' = ThesisResponse(op, args, snapshot)

replay(case_id, asof) ==
    LET args == [case_id |-> case_id, asof |-> asof]
        op == "replay"
    IN
    /\ UNCHANGED <<now, events, snapshots>>
    /\ \/ last' = HTTPException(op, args, 500, AttributeError)
       \/ IF case_id \notin Cases
          THEN last' = HTTPException(op, args, 404, "Case not found")
          ELSE \E order \in order_by_event_ts_asc(thesis_events(case_id, asof)) :
                 LET ticker == trade_case_ticker[case_id]
                     upto == {i \in 1..Len(snapshots) :
                                 /\ snapshots[i].case_id = case_id
                                 /\ snapshots[i].asof_ts <= asof}
                     latest == {i \in upto : \A j \in upto :
                                   snapshots[j].asof_ts <= snapshots[i].asof_ts}
                 IN  \E snapshot \in IF latest = {} THEN {NoSnapshot}
                                     ELSE {snapshots[i] : i \in latest} :
                       last' = ThesisResponse(op, args,
                                 [case |-> [id |-> case_id, ticker |-> ticker],
                                  events |-> [k \in DOMAIN order |-> events[order[k]]],
                                  latest_snapshot |-> snapshot,
                                  market_summary |->
                                      market_summary(latest_market(ticker, asof))])

CreateOrReuseDraft ==
    \E r \in DraftRequests : create_or_reuse_draft(r[1], r[2], r[3], r[4])

PatchDraftEvent ==
    \E r \in PatchRequests, event_id \in EventIds :
        patch_draft_event(r[1], event_id, r[2])

FinalizeEvent ==
    \E case_id \in Cases, event_id \in EventIds : finalize_event(case_id, event_id)

AddEvent ==
    \E r \in AddEventRequests : add_event(r[1], r[2])

CreateTickerRule ==
    \E r \in RuleRequests : create_ticker_rule(r[1], r[2], r[3], r[4])

DeactivateTickerRule ==
    \E ticker \in TickerInputs, event_id \in EventIds :
        deactivate_ticker_rule(ticker, event_id)

GetEvents ==
    \E case_id \in Cases \cup {UnknownCase} : get_events(case_id)

Next ==
    \/ Tick
    \/ CreateOrReuseDraft
    \/ PatchDraftEvent
    \/ FinalizeEvent
    \/ AddEvent
    \/ GetEvents
    \/ CreateTickerRule
    \/ DeactivateTickerRule

Spec == Init /\ [][Next]_vars

CompileThesis ==
    \E r \in ThesisRequests : compile_thesis(r[1], r[2])

Replay ==
    \E r \in ThesisRequests : replay(r[1], r[2])

\* The thesis routes read decision_events and write only thesis_snapshots:
\* they are run against the stores that drafts and strict inserts build.
NextThesis ==
    \/ Tick
    \/ CreateOrReuseDraft
    \/ AddEvent
    \/ CompileThesis
    \/ Replay

SpecThesis == Init /\ [][NextThesis]_vars

\* ---------------------------------------------------------------------
\* The merge on its own
\* ---------------------------------------------------------------------

MergeKeys == {"a", "b"}

\* JSON values that are not objects: null, a number, two lists.
MergeLeaves ==
    {JNull, JInt(1), JList(<<JInt(1), JInt(2)>>), JList(<<JInt(3)>>)}

\* The JSON values over some leaves whose objects nest at most depth deep.
RECURSIVE JsonValuesOver(_, _)
JsonValuesOver(leaves, depth) ==
    IF depth = 0 THEN leaves
    ELSE LET inner == JsonValuesOver(leaves, depth - 1)
         IN  leaves \cup
             {JObj(f) : f \in UNION {[K -> inner] : K \in SUBSET MergeKeys}}

JsonValues(depth) == JsonValuesOver(MergeLeaves, depth)

\* A base and a patch handed to deep_merge_replace_lists.
merge_input(base, patch) ==
    [op |-> "merge_input", args |-> [base |-> base, patch |-> patch],
     code |-> 0, detail |-> NoError, event |-> NoEvent,
     missing_fields |-> <<>>, repeat |-> FALSE]

InitMerge ==
    /\ events = <<>>
    /\ snapshots = <<>>
    /\ now = 1
    /\ \E base \in JsonValues(MaxDepth), patch \in JsonValues(MaxDepth) :
          last = merge_input(base, patch)

\* The call of deep_merge_replace_lists on the inputs and the value it returns.
Merge ==
    /\ last.op = "merge_input"
    /\ last' = [last EXCEPT !.op = "deep_merge_replace_lists", !.code = 200] @@
               [result |-> deep_merge_replace_lists(last.args.base, last.args.patch)]
    /\ UNCHANGED <<events, now, snapshots>>

NextMerge == Merge

SpecMerge == InitMerge /\ [][NextMerge]_vars

\* ---------------------------------------------------------------------
\* The merge over Python objects
\* ---------------------------------------------------------------------

\* A dict is an object of the heap, a sequence of dicts, and is named by its
\* address; a value is a reference to a dict or a JSON value that is not an
\* object.
Ref(addr) == [t |-> "ref", v |-> addr]

\* The heap after the objects of a JSON value were built in it, each a dict
\* of its own, and the value that names the outermost.
RECURSIVE alloc(_, _)
RECURSIVE alloc_items(_, _, _, _)
alloc(heap, value) ==
    IF value.t # "obj" THEN [heap |-> heap, value |-> value]
    ELSE alloc_items(heap, value.v, DOMAIN value.v, EmptyDict)

alloc_items(heap, items, keys, dict) ==
    IF keys = {} THEN [heap |-> Append(heap, dict), value |-> Ref(Len(heap) + 1)]
    ELSE LET k == CHOOSE x \in keys : TRUE
             r == alloc(heap, items[k])
         IN  alloc_items(r.heap, items, keys \ {k}, (k :> r.value) @@ dict)

\* The JSON value a heap value stands for.
RECURSIVE deref(_, _)
deref(heap, value) ==
    IF value.t = "ref"
    THEN JObj([k \in DOMAIN heap[value.v] |-> deref(heap, heap[value.v][k])])
    ELSE value

RECURSIVE py_deep_merge(_, _, _)
RECURSIVE py_merge_items(_, _, _, _)

\* deep_merge_replace_lists with out = base in place of out = dict(base).
py_merge_in_place(heap, base, patch) ==
    IF patch.t = "null" THEN [heap |-> heap, value |-> base]
    ELSE IF base.t = "ref" /\ patch.t = "ref"
    THEN py_merge_items(heap, base.v, patch.v, DOMAIN heap[patch.v])
    ELSE [heap |-> heap, value |-> patch]

\* deep_merge_replace_lists statement by statement: the heap it leaves and
\* the value it returns.
py_deep_merge(heap, base, patch) ==
    IF patch.t = "null" THEN [heap |-> heap, value |-> base]
    ELSE IF base.t = "ref" /\ patch.t = "ref"
    THEN \* out = dict(base)
         py_merge_items(Append(heap, heap[base.v]), Len(heap) + 1, patch.v,
                        DOMAIN heap[patch.v])
    ELSE [heap |-> heap, value |-> patch]

\* for k, v in patch.items(), over the keys still to visit; return out
py_merge_items(heap, out, patch, keys) ==
    IF keys = {} THEN [heap |-> heap, value |-> Ref(out)]
    ELSE LET k == CHOOSE x \in keys : TRUE
             v == heap[patch][k]
         IN  IF k \in DOMAIN heap[out]
             THEN LET r == py_deep_merge(heap, heap[out][k], v)
                  IN  py_merge_items(
                          [r.heap EXCEPT ![out] = (k :> r.value) @@ r.heap[out]],
                          out, patch, keys \ {k})
             ELSE py_merge_items([heap EXCEPT ![out] = (k :> v) @@ heap[out]],
                                 out, patch, keys \ {k})

\* The leaves of the values built on the heap: null, a number, a list.
ObjectLeaves == {JNull, JInt(1), JList(<<JInt(3)>>)}

ObjectValues(depth) == JsonValuesOver(ObjectLeaves, depth)

\* A base and a patch built on a heap and handed to the merge.
merge_objects_input(heap, base, patch) ==
    [op |-> "merge_objects_input",
     args |-> [heap |-> heap, base |-> base, patch |-> patch],
     code |-> 0, detail |-> NoError, event |-> NoEvent,
     missing_fields |-> <<>>, repeat |-> FALSE]

\* The base and the patch are objects of their own, or one and the same object.
InitMergeObjects ==
    /\ events = <<>>
    /\ snapshots = <<>>
    /\ now = 1
    /\ \E base \in ObjectValues(MaxDepth) :
          LET b == alloc(<<>>, base)
          IN  \/ last = merge_objects_input(b.heap, b.value, b.value)
              \/ \E patch \in ObjectValues(MaxDepth) :
                    LET p == alloc(b.heap, patch)
                    IN  last = merge_objects_input(p.heap, b.value, p.value)

MergeObjects ==
    /\ last.op = "merge_objects_input"
    /\ last' = [last EXCEPT !.op = "py_deep_merge", !.code = 200] @@
               [result |-> py_deep_merge(last.args.heap, last.args.base,
                                         last.args.patch)]
    /\ UNCHANGED <<events, now, snapshots>>

NextMergeObjects == MergeObjects

SpecMergeObjects == InitMergeObjects /\ [][NextMergeObjects]_vars

\* ---------------------------------------------------------------------
\* The schema registry on its own: compute_missing_fields and validate_payload
\* ---------------------------------------------------------------------

\* A payload that validate_payload accepts, for each event type.
CompletePayload ==
    [INITIATE |-> InitiateComplete,
     THESIS_UPDATE |->
        [what_changed |-> JStr("MACRO"), update_summary |-> JStr("x"),
         drivers_delta |-> JObj([add |-> JList(<<JStr("a")>>), remove |-> JList(<<>>)]),
         risks_delta |-> JObj([add |-> JList(<<>>), remove |-> JList(<<JStr("b")>>)]),
         triggers_delta |-> JObj([add |-> JList(<<JStr("c")>>), remove |-> JList(<<>>)]),
         conviction_delta |-> JInt(5), confidence |-> JFloat(5)],
     RISK_NOTE |->
        [risk_type |-> JStr("MACRO"), severity |-> JStr("LOW"), note |-> JStr("n"),
         action |-> JStr("NONE"), due_by |-> JStr("2020-01-01")],
     RESIZE |->
        [from_pct |-> JFloat(10), to_pct |-> JInt(2), reason |-> JStr("RISK"),
         rationale |-> JStr("r"),
         constraints |-> JObj([adv_cap_binding |-> JBool(FALSE),
                               gross_cap_binding |-> JBool(TRUE),
                               net_cap_binding |-> JBool(FALSE)])],
     TICKER_RULE |->
        [ticker |-> JStr("AAPL"), rule_text |-> JStr("t"),
         tags |-> JList(<<JStr("g")>>), status |-> JStr("ACTIVE")],
     POST_MORTEM |->
        [outcome |-> JStr("WIN"), thesis_outcome |-> JStr("CONFIRMED"),
         process_adherence |-> JStr("HIGH"), primary_reason |-> JStr("TIMING"),
         what_worked |-> JStr("w"), what_failed |-> JStr("f"),
         rule_violations |-> JList(<<JStr("v")>>), lesson |-> JStr("l")]]

\* An event type of no entry in required_by_type and of no branch of
\* validate_payload.
UnknownEventType == "UNKNOWN"

\* The key is not in the payload.
Absent == [t |-> "absent"]

\* What a field of a payload is changed to: it is removed, or it holds null,
\* a string (empty, whitespace, text), a list (empty or not), an empty
\* object, a number (0, 150) or false.
AlteredValues ==
    {Absent, JNull, JStr(""), JStr(" \n"), JStr("x"), JList(<<>>),
     JList(<<JStr("x")>>), JObj(EmptyDict), JInt(0), JInt(150), JBool(FALSE)}

\* The payload base with the fields of f changed to the values of f.
alter(base, f) ==
    [k \in {x \in DOMAIN base : x \notin DOMAIN f \/ f[x] # Absent} |->
        IF k \in DOMAIN f THEN f[k] ELSE base[k]]

\* The complete payload of an event type with at most MaxAltered fields changed.
SchemaPayloads(event_type) ==
    LET base == CompletePayload[event_type]
        changed == {K \in SUBSET DOMAIN base : Cardinality(K) <= MaxAltered}
    IN  {alter(base, f) : f \in UNION {[K -> AlteredValues] : K \in changed}}

\* An event type and a payload handed to the schema registry.
schema_input(event_type, payload) ==
    [op |-> "schema_input", args |-> [event_type |-> event_type, payload |-> payload],
     code |-> 0, detail |-> NoError, event |-> NoEvent,
     missing_fields |-> <<>>, repeat |-> FALSE]

InitSchema ==
    /\ events = <<>>
    /\ snapshots = <<>>
    /\ now = 1
    /\ \/ \E event_type \in EVENT_TYPES :
             \E payload \in SchemaPayloads(event_type) :
                last = schema_input(event_type, payload)
       \/ \E payload \in {EmptyDict, InitiateComplete} :
             last = schema_input(UnknownEventType, payload)

\* The call of compute_missing_fields on the inputs and the list it returns.
ComputeMissingFields ==
    /\ last.op = "schema_input"
    /\ last' = [last EXCEPT
                    !.op = "compute_missing_fields",
                    !.code = 200,
                    !.missing_fields =
                        compute_missing_fields(last.args.event_type, last.args.payload)]
    /\ UNCHANGED <<events, now, snapshots>>

\* The call of validate_payload on the inputs: it returns (200), raises
\* HTTPException(400, detail) or raises a TypeError.
ValidatePayload ==
    /\ last.op = "schema_input"
    /\ LET detail == validate_payload(last.args.event_type, last.args.payload)
       IN  last' = [last EXCEPT
                       !.op = "validate_payload",
                       !.code = IF detail = NoError THEN 200
                                ELSE IF detail = TypeErrorUnhashable THEN 500
                                ELSE 400,
                       !.detail = detail]
    /\ UNCHANGED <<events, now, snapshots>>

NextSchema ==
    \/ ComputeMissingFields
    \/ ValidatePayload

SpecSchema == InitSchema /\ [][NextSchema]_vars

\* ---------------------------------------------------------------------
\* The interpret gate: helpers of llm.py
\* ---------------------------------------------------------------------

\* The character classes of _TICKER_TOKEN_RE: [A-Z], [A-Z0-9] and \w.
CharClass ==
    LET chars_of(s) == {SubSeq(s, i, i) : i \in 1..Len(s)}
        digits == chars_of("0123456789")
    IN  [upper |-> chars_of(UpperChars),
         upper_or_digit |-> chars_of(UpperChars) \cup digits,
         word |-> chars_of(UpperChars) \cup chars_of(LowerChars) \cup digits \cup {"_"}]

\* The length of the match of \b[A-Z][A-Z0-9]{0,5}(?:\.[A-Z])?\b at place i
\* of the text, 0 for no match.  The quantifiers are greedy: the longest run
\* of [A-Z0-9] that lets the rest match is taken, with the suffix if it
\* matches.
TICKER_TOKEN_RE_match_at(text, i) ==
    LET \* \b before the character at place j (j = Len(text) + 1: at the end)
        word_boundary(j) ==
            (j > 1 /\ SubSeq(text, j - 1, j - 1) \in CharClass.word)
                # (j <= Len(text) /\ SubSeq(text, j, j) \in CharClass.word)
        \* n characters of [A-Z0-9] after the first, the suffix taken or
        \* not, and \b after the token
        token_ends(n, suffix) ==
            LET e == i + n + 1
            IN  /\ \A j \in 1..n :
                      /\ i + j <= Len(text)
                      /\ SubSeq(text, i + j, i + j) \in CharClass.upper_or_digit
                /\ IF suffix
                   THEN /\ e + 1 <= Len(text)
                        /\ SubSeq(text, e, e) = "."
                        /\ SubSeq(text, e + 1, e + 1) \in CharClass.upper
                        /\ word_boundary(e + 2)
                   ELSE word_boundary(e)
        runs == {n \in 0..5 : token_ends(n, TRUE) \/ token_ends(n, FALSE)}
    IN  IF ~(i <= Len(text) /\ SubSeq(text, i, i) \in CharClass.upper /\ word_boundary(i))
        THEN 0
        ELSE IF runs = {} THEN 0
        ELSE LET n == CHOOSE m \in runs : \A other \in runs : other <= m
             IN  IF token_ends(n, TRUE) THEN n + 3 ELSE n + 1

extract_allowed_tickers_with_default(text) ==
    <<"AAPL">>

extract_allowed_tickers_case_blind(text) ==
    IF Len(text) < 4 THEN <<>> ELSE <<upper(SubSeq(text, Len(text) - 3, Len(text)))>>

\* extract_allowed_tickers(text): _TICKER_TOKEN_RE.findall scans the text
\* from the left and goes on after the end of each match; of the tokens
\* found, the first occurrences are kept, in order.
extract_allowed_tickers(text) ==
    LET findall[i \in 1..(Len(text) + 1)] ==
            IF i > Len(text) THEN <<>>
            ELSE LET n == TICKER_TOKEN_RE_match_at(text, i)
                 IN  IF n = 0 THEN findall[i + 1]
                     ELSE <<SubSeq(text, i, i + n - 1)>> \o findall[i + n]
        found == findall[1]
        out[k \in 0..Len(found)] ==
            IF k = 0 THEN <<>>
            ELSE IF \E j \in 1..Len(out[k - 1]) : out[k - 1][j] = found[k]
            THEN out[k - 1]
            ELSE Append(out[k - 1], found[k])
    IN  IF text = "" THEN <<>> ELSE out[Len(found)]

ALLOWED_EVENT_TYPES ==
    {"INITIATE", "THESIS_UPDATE", "RISK_NOTE", "RESIZE", "TICKER_RULE", "POST_MORTEM"}

SEED_ALLOWLIST ==
    [INITIATE |-> <<>>,
     THESIS_UPDATE |-> <<"update_summary">>,
     RISK_NOTE |-> <<"note">>,
     RESIZE |-> <<"rationale">>,
     TICKER_RULE |-> <<"rule_text">>,
     POST_MORTEM |-> <<"lesson">>]

\* d.get(k) on a dict of JSON values
dict_get(d, k) ==
    IF k \in DOMAIN d THEN d[k] ELSE JNull

\* An exception that is no HTTPException leaves the handler.
Raised(kind) ==
    [t |-> "raise", v |-> kind]

sanitize_seed_payload_keeps_all(event_type, seed) ==
    IF ~Truthy(seed) \/ seed.t # "obj" \/ ~Truthy(event_type) THEN JNull
    ELSE IF event_type.t \in {"list", "obj"} THEN Raised(TypeErrorUnhashable)
    ELSE LET allowed_keys ==
                 IF event_type.t = "str" /\ event_type.v \in DOMAIN SEED_ALLOWLIST
                 THEN {SEED_ALLOWLIST[event_type.v][i] :
                          i \in 1..Len(SEED_ALLOWLIST[event_type.v])}
                 ELSE {}
         IN  IF allowed_keys = {} THEN JNull
             ELSE seed

\* _sanitize_seed_payload(event_type, seed): None, the seed cut down to the
\* allowed keys, or the TypeError of SEED_ALLOWLIST.get on a list or a dict.
sanitize_seed_payload(event_type, seed) ==
    IF ~Truthy(seed) \/ seed.t # "obj" \/ ~Truthy(event_type) THEN JNull
    ELSE IF event_type.t \in {"list", "obj"} THEN Raised(TypeErrorUnhashable)
    ELSE LET allowed_keys ==
                 IF event_type.t = "str" /\ event_type.v \in DOMAIN SEED_ALLOWLIST
                 THEN {SEED_ALLOWLIST[event_type.v][i] :
                          i \in 1..Len(SEED_ALLOWLIST[event_type.v])}
                 ELSE {}
         IN  IF allowed_keys = {} THEN JNull
             ELSE JObj([k \in (DOMAIN seed.v) \cap allowed_keys |-> seed.v[k]])

action_ok_without_ticker_gate(action, allowed_tickers, pending_field, allow_answer_fields) ==
    LET a_type == dict_get(action, "type")
        ev == dict_get(action, "event_type")
        field == dict_get(action, "field")
    IN  IF ev.t \in {"list", "obj"} THEN TypeErrorUnhashable
        ELSE IF ev # JNull /\ ~(ev.t = "str" /\ ev.v \in ALLOWED_EVENT_TYPES) THEN "False"
        ELSE IF a_type # JStr("ANSWER_FIELD") THEN "True"
        ELSE IF ~Truthy(field) \/ field.t # "str" THEN "False"
        ELSE IF Truthy(pending_field)
        THEN (IF field = pending_field THEN "True" ELSE "False")
        ELSE IF allow_answer_fields # JNull
        THEN (IF \E i \in 1..Len(allow_answer_fields.v) : allow_answer_fields.v[i] = field
              THEN "True" ELSE "False")
        ELSE "False"

action_ok_without_event_type_gate(action, allowed_tickers, pending_field, allow_answer_fields) ==
    LET a_type == dict_get(action, "type")
        ticker == dict_get(action, "ticker")
        field == dict_get(action, "field")
    IN  IF ticker # JNull
           /\ ~(ticker.t = "str"
                /\ \E i \in 1..Len(allowed_tickers) : allowed_tickers[i] = ticker.v)
        THEN "False"
        ELSE IF a_type # JStr("ANSWER_FIELD") THEN "True"
        ELSE IF ~Truthy(field) \/ field.t # "str" THEN "False"
        ELSE IF Truthy(pending_field)
        THEN (IF field = pending_field THEN "True" ELSE "False")
        ELSE IF allow_answer_fields # JNull
        THEN (IF \E i \in 1..Len(allow_answer_fields.v) : allow_answer_fields.v[i] = field
              THEN "True" ELSE "False")
        ELSE "False"

action_ok_answerable_before_pending(action, allowed_tickers, pending_field, allow_answer_fields) ==
    LET a_type == dict_get(action, "type")
        ticker == dict_get(action, "ticker")
        ev == dict_get(action, "event_type")
        field == dict_get(action, "field")
    IN  IF ticker # JNull
           /\ ~(ticker.t = "str"
                /\ \E i \in 1..Len(allowed_tickers) : allowed_tickers[i] = ticker.v)
        THEN "False"
        ELSE IF ev.t \in {"list", "obj"} THEN TypeErrorUnhashable
        ELSE IF ev # JNull /\ ~(ev.t = "str" /\ ev.v \in ALLOWED_EVENT_TYPES) THEN "False"
        ELSE IF a_type # JStr("ANSWER_FIELD") THEN "True"
        ELSE IF ~Truthy(field) \/ field.t # "str" THEN "False"
        ELSE IF allow_answer_fields # JNull
        THEN (IF \E i \in 1..Len(allow_answer_fields.v) : allow_answer_fields.v[i] = field
              THEN "True" ELSE "False")
        ELSE IF Truthy(pending_field)
        THEN (IF field = pending_field THEN "True" ELSE "False")
        ELSE "False"

\* _action_ok_against_allowlists: "True", "False", or the TypeError of the
\* membership test of a list or a dict in the set ALLOWED_EVENT_TYPES.
\* allowed_tickers is a list of strings; pending_field is a string or None,
\* allow_answer_fields a list of strings or None.
action_ok_against_allowlists(action, allowed_tickers, pending_field, allow_answer_fields) ==
    LET a_type == dict_get(action, "type")
        ticker == dict_get(action, "ticker")
        ev == dict_get(action, "event_type")
        field == dict_get(action, "field")
    IN  IF ticker # JNull
           /\ ~(ticker.t = "str"
                /\ \E i \in 1..Len(allowed_tickers) : allowed_tickers[i] = ticker.v)
        THEN "False"
        ELSE IF ev.t \in {"list", "obj"} THEN TypeErrorUnhashable
        ELSE IF ev # JNull /\ ~(ev.t = "str" /\ ev.v \in ALLOWED_EVENT_TYPES) THEN "False"
        ELSE IF a_type # JStr("ANSWER_FIELD") THEN "True"
        ELSE IF ~Truthy(field) \/ field.t # "str" THEN "False"
        ELSE IF Truthy(pending_field)
        THEN (IF field = pending_field THEN "True" ELSE "False")
        ELSE IF allow_answer_fields # JNull
        THEN (IF \E i \in 1..Len(allow_answer_fields.v) : allow_answer_fields.v[i] = field
              THEN "True" ELSE "False")
        ELSE "False"

\* A response body of /llm/interpret; the confidence is in tenths.
InterpretBody(mode, confidence, action, clarify, message) ==
    [mode |-> mode, confidence |-> confidence, action |-> action,
     clarify |-> clarify, message |-> message]

default_noop ==
    InterpretBody("NOOP", 0, JNull, JNull,
        JStr("Use an uppercase ticker (e.g., AAPL) and commands like: ticker AAPL, long AAPL, update:, risk:, size:, rule:, post:."))

\* ---------------------------------------------------------------------
\* The interpret gate: llm_interpret
\* ---------------------------------------------------------------------

\* Confidence thresholds, in tenths.
EXECUTE_MIN == 8

CLARIFY_MIN == 4

\* float(x or 0.0): a float, in tenths, or the exception it raises.  Of the
\* strings of the model, "0.9" is the one float() converts.
py_float(x) ==
    IF ~Truthy(x) THEN JFloat(0)
    ELSE IF IsNumber(x) THEN JFloat(Tenths(x))
    ELSE IF x.t = "str"
    THEN (IF x.v = "0.9" THEN JFloat(9)
          ELSE Raised("ValueError: could not convert string to float"))
    ELSE Raised("TypeError: float() argument must be a string or a real number")

\* s[:n]
slice_to(s, n) ==
    SubSeq(s, 1, IF Len(s) < n THEN Len(s) ELSE n)

\* What the request is answered with: a body (code 200), an HTTPException
\* or another exception (code 500), both without a body.
InterpretResponse(code, detail, body) ==
    [code |-> code, detail |-> detail, body |-> body]

\* The clarification returned when no allowed ticker is left.
EnterTickerClarify ==
    LET NullAction(type) ==
            JObj([type |-> JStr(type), ticker |-> JNull, event_type |-> JNull,
                  field |-> JNull, answer_text |-> JNull, seed_payload |-> JNull])
    IN  InterpretBody("CLARIFY", 6, JNull,
            [question |-> "Enter an uppercase ticker (e.g., AAPL). Company names are not supported.",
             choices |-> <<[label |-> "OK", action |-> NullAction("CANCEL")],
                           [label |-> "Show commands", action |-> NullAction("SHOW_DRAFT")]>>],
            JNull)

sanitize_without_gate(action, allowed_tickers, pending_field, allow_answer_fields) ==
    LET seed == sanitize_seed_payload(dict_get(action, "event_type"),
                                      dict_get(action, "seed_payload"))
        sanitized == [k \in (DOMAIN action) \cup {"seed_payload"} |->
                        IF k = "seed_payload" THEN seed ELSE action[k]]
    IN  IF seed.t = "raise" THEN [ok |-> seed.v, action |-> action]
        ELSE [ok |-> "True", action |-> sanitized]

\* The seed of an action is sanitized and stored in the action, then the
\* action is gated (llm.py:513-523, 553-563): the outcome of the gate, or
\* the exception raised, and the action as it then is.
sanitize_and_gate(action, allowed_tickers, pending_field, allow_answer_fields) ==
    LET seed == sanitize_seed_payload(dict_get(action, "event_type"),
                                      dict_get(action, "seed_payload"))
        sanitized == [k \in (DOMAIN action) \cup {"seed_payload"} |->
                        IF k = "seed_payload" THEN seed ELSE action[k]]
    IN  IF seed.t = "raise" THEN [ok |-> seed.v, action |-> action]
        ELSE [ok |-> action_ok_against_allowlists(sanitized, allowed_tickers,
                                                  pending_field, allow_answer_fields),
              action |-> sanitized]

\* The loop over the choices of a clarify payload (llm.py:544-566): the
\* choices kept, and the exception raised by a choice, if any.
clean_choices(choices, allowed_tickers, pending_field, allow_answer_fields) ==
    LET cleaned[n \in 0..Len(choices)] ==
            IF n = 0 THEN [raised |-> NoError, kept |-> <<>>]
            ELSE LET ch == choices[n]
                     label == dict_get(ch.v, "label")
                     ch_action == dict_get(ch.v, "action")
                     gated == sanitize_and_gate(ch_action.v, allowed_tickers,
                                                pending_field, allow_answer_fields)
                     before == cleaned[n - 1]
                 IN  IF before.raised # NoError THEN before
                     ELSE IF ch.t # "obj" THEN before
                     ELSE IF label.t # "str" \/ ch_action.t # "obj" THEN before
                     ELSE IF gated.ok = "False" THEN before
                     ELSE IF gated.ok # "True"
                     THEN [raised |-> gated.ok, kept |-> before.kept]
                     ELSE [raised |-> NoError,
                           kept |-> Append(before.kept,
                                           [label |-> slice_to(label.v, 60),
                                            action |-> JObj(gated.action)])]
    IN  cleaned[Len(choices)]

execute_never_downgraded(mode, conf) ==
    mode

\* if mode == "EXECUTE" and conf < EXECUTE_MIN: mode = "CLARIFY"
downgrade_execute(mode, conf) ==
    IF mode = "EXECUTE" /\ conf < EXECUTE_MIN THEN "CLARIFY" ELSE mode

\* if mode == "CLARIFY" and conf < CLARIFY_MIN: return _default_noop()
clarify_too_low(mode, conf) ==
    mode = "CLARIFY" /\ conf < CLARIFY_MIN

\* The gating of the output of the oracle (llm.py:477-577).
gate_oracle_output(out, allowed_tickers, pending_field, allow_answer_fields) ==
    IF out.t # "obj" THEN InterpretResponse(200, NoError, default_noop)
    ELSE
    LET mode_in == dict_get(out.v, "mode")
        conf_in == py_float(dict_get(out.v, "confidence"))
        conf == conf_in.v
        action == dict_get(out.v, "action")
        clarify == dict_get(out.v, "clarify")
        message == dict_get(out.v, "message")
        Ok(body) == InterpretResponse(200, NoError, body)
        Raises(kind) == InterpretResponse(500, kind, [mode |-> ""])
    IN
    IF conf_in.t = "raise" THEN Raises(conf)
    ELSE IF mode_in.t \in {"list", "obj"} THEN Raises(TypeErrorUnhashable)
    ELSE IF ~(mode_in.t = "str" /\ mode_in.v \in {"EXECUTE", "CLARIFY", "NOOP"})
    THEN Ok(default_noop)
    ELSE
    LET mode == downgrade_execute(mode_in.v, conf)
    IN
    IF clarify_too_low(mode, conf) THEN Ok(default_noop)
    ELSE IF mode = "NOOP"
    THEN (IF ~Truthy(message)
          THEN Ok(InterpretBody("NOOP", conf, JNull, JNull,
                                JStr(slice_to(default_noop.message.v, 200))))
          ELSE IF message.t = "str"
          THEN Ok(InterpretBody("NOOP", conf, JNull, JNull, JStr(slice_to(message.v, 200))))
          ELSE IF message.t = "list"
          THEN Ok(InterpretBody("NOOP", conf, JNull, JNull, JList(slice_to(message.v, 200))))
          ELSE Raises("TypeError: object is not subscriptable"))
    ELSE IF mode = "EXECUTE"
    THEN (IF action.t # "obj" THEN Ok(default_noop)
          ELSE LET gated == sanitize_and_gate(action.v, allowed_tickers,
                                              pending_field, allow_answer_fields)
               IN  IF gated.ok = "False" THEN Ok(default_noop)
                   ELSE IF gated.ok # "True" THEN Raises(gated.ok)
                   ELSE Ok(InterpretBody("EXECUTE", conf, JObj(gated.action), JNull, JNull)))
    ELSE
    IF clarify.t # "obj" THEN Ok(default_noop)
    ELSE
    LET q == dict_get(clarify.v, "question")
        choices == dict_get(clarify.v, "choices")
    IN
    IF q.t # "str" \/ choices.t # "list" \/ ~(2 <= Len(choices.v) /\ Len(choices.v) <= 5)
    THEN Ok(default_noop)
    ELSE
    LET done == clean_choices(choices.v, allowed_tickers, pending_field, allow_answer_fields)
    IN
    IF done.raised # NoError THEN Raises(done.raised)
    ELSE IF Len(done.kept) < 2 THEN Ok(default_noop)
    ELSE Ok(InterpretBody("CLARIFY", conf, JNull,
                          [question |-> slice_to(q.v, 200),
                           choices |-> slice_to(done.kept, 5)],
                          JNull))

\* POST /llm/interpret with the body of the request; call_structured, if it
\* is reached, returns the JSON value oracle or raises (oracle = Raised(..)).
\* The field consulted tells whether call_structured was reached.
llm_interpret(body, oracle) ==
    LET Before(response) == response @@ [consulted |-> FALSE]
        After(response) == response @@ [consulted |-> TRUE]
        \* str(x) of the text of a request
        py_str(x) ==
            CASE x.t = "str" -> x.v
              [] x.t = "null" -> "None"
              [] x.t = "bool" -> IF x.v THEN "True" ELSE "False"
        text == strip(py_str(IF "text" \in DOMAIN body THEN body["text"] ELSE JStr("")))
        given == dict_get(body, "allowed_tickers")
        draft_in == dict_get(body, "draft")
        draft == IF Truthy(draft_in) /\ draft_in.t = "obj" THEN draft_in.v ELSE EmptyDict
        pending_in == dict_get(draft, "pending_field")
        pending_field == IF pending_in.t = "str" THEN pending_in ELSE JNull
        missing_in == dict_get(draft, "missing_fields")
        allow_answer_fields ==
            IF missing_in.t = "list"
               /\ \A i \in 1..Len(missing_in.v) : missing_in.v[i].t = "str"
            THEN missing_in ELSE JNull
    IN
    IF text = "" THEN Before(InterpretResponse(200, NoError, default_noop))
    ELSE IF given # JNull
            /\ ~(given.t = "list" /\ \A i \in 1..Len(given.v) : given.v[i].t = "str")
    THEN Before(InterpretResponse(400, "allowed_tickers must be array of strings",
                                  [mode |-> ""]))
    ELSE
    LET listed == IF given = JNull THEN extract_allowed_tickers(text)
                  ELSE [i \in 1..Len(given.v) |-> given.v[i].v]
        \* _TICKER_TOKEN_RE.match(t): a match at the start of t
        allowed_tickers ==
            SelectSeq(listed, LAMBDA t : TICKER_TOKEN_RE_match_at(t, 1) > 0)
    IN
    IF Len(allowed_tickers) = 0
    THEN Before(InterpretResponse(200, NoError, EnterTickerClarify))
    ELSE IF oracle.t = "raise" THEN After(InterpretResponse(500, oracle.v, [mode |-> ""]))
    ELSE After(gate_oracle_output(oracle, allowed_tickers, pending_field,
                                  allow_answer_fields))

\* ---------------------------------------------------------------------
\* The interpret gate on its own: requests and oracle outputs
\* ---------------------------------------------------------------------

JStrs(seq) == JList([i \in 1..Len(seq) |-> JStr(seq[i])])

\* Requests that reach the oracle: allowed tickers given (AAPL alone) or
\* taken from the text (AAPL and MSFT; AAPL), with a pending field, with a
\* list of answerable fields only (the pending field being no string, or the
\* empty string), or with neither.
ScenarioBody == [text |-> JStr("long AAPL"), allowed_tickers |-> JStrs(<<"AAPL">>)]

TwoTickersBody == [text |-> JStr("AAPL or MSFT?")]

PendingBody ==
    [text |-> JStr("fill it in"), allowed_tickers |-> JStrs(<<"AAPL", "aapl">>),
     draft |-> JObj([pending_field |-> JStr("note"),
                     missing_fields |-> JStrs(<<"note", "severity">>)])]

AnswerableBody ==
    [text |-> JStr("risk AAPL high"),
     draft |-> JObj([pending_field |-> JInt(5),
                     missing_fields |-> JStrs(<<"note", "severity">>)])]

EmptyPendingBody ==
    [text |-> JStr("severity high"), allowed_tickers |-> JStrs(<<"AAPL">>),
     draft |-> JObj([pending_field |-> JStr(""),
                     missing_fields |-> JStrs(<<"note", "severity">>)])]

GatedBodies == {ScenarioBody, TwoTickersBody, PendingBody, AnswerableBody, EmptyPendingBody}

\* Requests answered before the oracle is called: no text, no ticker token in
\* the text, allowed_tickers without a ticker or that is no list.
EarlyBodies ==
    {[text |-> JStr(" \n")],
     [draft |-> JNull],
     [text |-> JStr(" "), allowed_tickers |-> JStrs(<<"AAPL">>)],
     [text |-> JStr("long apple Aapl")],
     [text |-> JStr("long apple"), allowed_tickers |-> JStrs(<<"aapl">>)],
     [text |-> JStr("long apple"), allowed_tickers |-> JStr("AAPL")],
     [text |-> JStr("AAPL"), allowed_tickers |-> JStrs(<<"aapl">>)],
     [text |-> JStr("AAPL"), allowed_tickers |-> JStr("AAPL")]}

OracleAction(type, ticker, event_type, field, seed) ==
    JObj([type |-> type, ticker |-> ticker, event_type |-> event_type,
          field |-> field, answer_text |-> JNull, seed_payload |-> seed])

ScenarioSeed == JObj([update_summary |-> JStr("ok"), conviction_delta |-> JInt(999)])

\* A seed with the narrative key of every event type, and two more keys.
NarrativeSeed ==
    JObj([note |-> JStr("n"), rationale |-> JStr("r"), rule_text |-> JStr("t"),
          lesson |-> JStr("l"), severity |-> JStr("HIGH"), size_after_pct |-> JInt(5)])

\* Actions of the oracle that follow its schema in shape, over tickers in and
\* out of the allowed ones, known and unknown event types, fields and seeds;
\* and the other event types, seeded.
OracleActions ==
    {OracleAction(JStr(type), ticker, event_type, field, seed) :
        type \in {"START_EVENT", "ANSWER_FIELD"},
        ticker \in {JNull, JStr("AAPL"), JStr("MSFT")},
        event_type \in {JNull, JStr("THESIS_UPDATE"), JStr("INITIATE"), JStr("BOGUS")},
        field \in {JNull, JStr("note"), JStr("severity")},
        seed \in {JNull, ScenarioSeed}}
    \cup
    {OracleAction(JStr("START_EVENT"), JStr("AAPL"), JStr(event_type), JNull, NarrativeSeed) :
        event_type \in {"RISK_NOTE", "RESIZE", "TICKER_RULE", "POST_MORTEM", "INITIATE"}}

\* Actions outside the schema: keys missing, values of other types.
OddActions ==
    {JStr("START_EVENT"),
     JObj([type |-> JStr("SHOW_EVENTS")]),
     JObj([type |-> JStr("START_EVENT"), event_type |-> JStr("RISK_NOTE"),
           seed_payload |-> JObj([note |-> JStr("n"), severity |-> JStr("HIGH")])]),
     OracleAction(JStr("START_EVENT"), JInt(5), JNull, JNull, JNull),
     OracleAction(JStr("ANSWER_FIELD"), JStr("AAPL"), JNull, JInt(5), JNull),
     OracleAction(JStr("START_EVENT"), JStr("AAPL"), JInt(5), JNull, ScenarioSeed),
     OracleAction(JStr("START_EVENT"), JStr("AAPL"), JList(<<JStr("INITIATE")>>),
                  JNull, JNull),
     OracleAction(JStr("START_EVENT"), JStr("AAPL"), JList(<<JStr("INITIATE")>>),
                  JNull, ScenarioSeed),
     OracleAction(JStr("START_EVENT"), JStr("MSFT"), JList(<<JStr("INITIATE")>>),
                  JNull, ScenarioSeed)}

Choice(label, action) == JObj([label |-> JStr(label), action |-> action])

\* The choices lists are built from: two that pass the gates for AAPL, one
\* naming MSFT, one seeded, one answering the field severity.
ChoiceOptions ==
    <<Choice("AAPL", OracleAction(JStr("SET_CONTEXT"), JStr("AAPL"), JNull, JNull, JNull)),
      Choice("events", OracleAction(JStr("SHOW_EVENTS"), JNull, JNull, JNull, JNull)),
      Choice("MSFT", OracleAction(JStr("SET_CONTEXT"), JStr("MSFT"), JNull, JNull, JNull)),
      Choice("update", OracleAction(JStr("START_EVENT"), JStr("AAPL"),
                                    JStr("THESIS_UPDATE"), JNull, ScenarioSeed)),
      Choice("severity", OracleAction(JStr("ANSWER_FIELD"), JNull, JNull,
                                      JStr("severity"), JNull))>>

Clarify(question, choices) == JObj([question |-> question, choices |-> choices])

\* Clarify payloads: with 2 to MaxChoices choices drawn from the options; and
\* at and outside the limits of the schema, with 0, 1, 5 and 6 choices,
\* choices and payloads of other types, an unknown event type in a choice.
Clarifies ==
    LET Repeated(n) == JList([i \in 1..n |-> ChoiceOptions[1]])
    IN  {Clarify(JStr("Which?"), JList([i \in DOMAIN f |-> ChoiceOptions[f[i]]])) :
            f \in UNION {[1..n -> DOMAIN ChoiceOptions] : n \in 2..MaxChoices}}
        \cup
        {JStr("Which?"),
         JObj([question |-> JStr("Which?")]),
         Clarify(JNull, Repeated(2)),
         Clarify(JStr("Which?"), JStr("AAPL")),
         Clarify(JStr("Which?"), Repeated(0)),
         Clarify(JStr("Which?"), Repeated(1)),
         Clarify(JStr("Which?"), Repeated(5)),
         Clarify(JStr("Which?"), Repeated(6)),
         Clarify(JStr("Which?"),
                 JList(<<ChoiceOptions[1], JStr("MSFT"), ChoiceOptions[2],
                         JObj([label |-> JInt(1), action |-> ChoiceOptions[1].v["action"]]),
                         JObj([label |-> JStr("none")])>>)),
         Clarify(JStr("Which?"),
                 JList(<<ChoiceOptions[1], ChoiceOptions[2],
                         Choice("bogus", OracleAction(JStr("START_EVENT"), JStr("AAPL"),
                                                      JStr("BOGUS"), JNull, JNull))>>)),
         Clarify(JStr("Which?"),
                 JList(<<ChoiceOptions[1], ChoiceOptions[2],
                         Choice("dict", OracleAction(JStr("START_EVENT"), JStr("AAPL"),
                                                     JObj(EmptyDict), JNull, JNull))>>)),
         Clarify(JStr("Which?"),
                 JList(<<ChoiceOptions[1],
                         Choice("dict", OracleAction(JStr("START_EVENT"), JStr("AAPL"),
                                                     JObj(EmptyDict), JNull, JNull))>>))}

\* One payload that gives a CLARIFY response for AAPL, one that does not.
GoodClarify == Clarify(JStr("Which?"), JList(<<ChoiceOptions[1], ChoiceOptions[2]>>))

BadClarify == Clarify(JStr("Which?"), JList(<<ChoiceOptions[1], ChoiceOptions[3]>>))

OracleOutput(mode, confidence, action, clarify, message) ==
    JObj([mode |-> mode, confidence |-> confidence, action |-> action,
          clarify |-> clarify, message |-> message])

\* The confidences of the outputs that follow the schema.
Confidences == {JFloat(0), JFloat(3), JFloat(4), JFloat(7), JFloat(8), JFloat(10)}

\* What the oracle returns.  Outputs of every mode and of the confidences 0,
\* 0.3, 0.4, 0.7, 0.8 and 1: every action with a few clarify payloads, and a
\* few actions with every clarify payload.  Outputs outside the schema in
\* mode, confidence or message.  And call_structured raising.
OracleOutputs(confidences) ==
        {OracleOutput(JStr(mode), confidence, action, clarify, JNull) :
            mode \in {"EXECUTE", "CLARIFY", "NOOP"},
            confidence \in confidences,
            action \in {JNull} \cup OracleActions \cup OddActions,
            clarify \in {JNull, GoodClarify, BadClarify}}
        \cup
        {OracleOutput(JStr(mode), confidence, action, clarify, JNull) :
            mode \in {"EXECUTE", "CLARIFY"},
            confidence \in confidences,
            action \in {JNull,
                        OracleAction(JStr("SET_CONTEXT"), JStr("MSFT"), JNull, JNull, JNull),
                        OracleAction(JStr("SET_CONTEXT"), JStr("AAPL"), JNull, JNull, JNull)},
            clarify \in Clarifies}
        \cup
        {OracleOutput(mode, confidence, ChoiceOptions[1].v["action"], GoodClarify, message) :
            mode \in {JNull, JStr("BOGUS"), JList(<<JStr("EXECUTE")>>), JStr("EXECUTE"),
                      JStr("NOOP")},
            confidence \in {JNull, JBool(TRUE), JInt(1), JStr("0.9"), JStr("high"),
                            JList(<<JInt(1)>>)},
            message \in {JNull, JStr("m"), JInt(5), JList(<<JStr("m")>>)}}
        \cup
        {JList(<<>>), JObj(EmptyDict), Raised("RuntimeError: LLM returned non-JSON content")}

\* A request body and the answer of the oracle handed to llm_interpret.
interpret_input(body, oracle) ==
    [op |-> "interpret_input", args |-> [body |-> body, oracle |-> oracle],
     code |-> 0, detail |-> NoError, event |-> NoEvent,
     missing_fields |-> <<>>, repeat |-> FALSE]

InitInterpret ==
    /\ events = <<>>
    /\ snapshots = <<>>
    /\ now = 1
    /\ \/ \E body \in GatedBodies, oracle \in OracleOutputs(Confidences) :
             last = interpret_input(body, oracle)
       \/ \E body \in EarlyBodies,
             oracle \in {JObj(EmptyDict),
                         OracleOutput(JStr("EXECUTE"), JFloat(10),
                                      ChoiceOptions[1].v["action"], GoodClarify, JNull)} :
             last = interpret_input(body, oracle)

\* POST /llm/interpret: the request is answered.
LlmInterpret ==
    /\ last.op = "interpret_input"
    /\ \E response \in {llm_interpret(last.args.body, last.args.oracle)} :
          last' = [last EXCEPT !.op = "llm_interpret",
                               !.code = response.code,
                               !.detail = response.detail] @@
                  [body |-> response.body, consulted |-> response.consulted]
    /\ UNCHANGED <<events, now, snapshots>>

NextInterpret == LlmInterpret

SpecInterpret == InitInterpret /\ [][NextInterpret]_vars

\* ---------------------------------------------------------------------
\* Requests in flight: the draft routes, interleaved
\* ---------------------------------------------------------------------

\* Each request runs in a Session of its own (db = SessionLocal()): it
\* queries the table, changes or adds its row object, and db.commit() sends
\* the INSERT or the UPDATE of the changed columns and commits.  Neither the
\* queries nor the model ask for a row lock or a version check, so the
\* requests of two sessions interleave between the query and the commit.
\* Here last holds, for each session, the request in flight or answered.
Sessions == {"s1", "s2"}

MaxRequests == 4

NoWrite == [kind |-> "none", id |-> 0, columns |-> EmptyDict]

\* A session: the request, where it stands ("idle", "commit": the query is
\* done and db.commit() is next, "done": answered), the row the query
\* returned, the write db.commit() will flush, and the response.
InFlight(op, args, pc, seen, write, code, detail, event) ==
    [op |-> op, args |-> args, pc |-> pc, seen |-> seen, write |-> write,
     code |-> code, detail |-> detail, event |-> event]

Answered200(op, args, seen, de) ==
    InFlight(op, args, "done", seen, NoWrite, 200, NoError, de)

Refused(op, args, code, detail) ==
    InFlight(op, args, "done", NoEvent, NoWrite, code, detail, NoEvent)

RequestArgs(case_id, event_type, event_id, body) ==
    [case_id |-> case_id, event_type |-> event_type, event_id |-> event_id, body |-> body]

InitFlights ==
    /\ events = <<>>
    /\ snapshots = <<>>
    /\ now = 1
    /\ last = [op |-> "in_flight", started |-> 0,
               of |-> [s \in Sessions |->
                         InFlight("none", RequestArgs(NoCase, "", 0, JNull), "idle",
                                  NoEvent, NoWrite, 0, NoError, NoEvent)]]

\* A session takes a request: the handler runs up to db.commit(), or to its
\* return when it has nothing to write.
Begins(s, flight) ==
    /\ last.of[s].pc # "commit"
    /\ last.started < MaxRequests
    /\ last' = [last EXCEPT !.started = @ + 1, !.of[s] = flight]
    /\ UNCHANGED <<events, now, snapshots>>

\* create_or_reuse_draft up to db.commit() (events.py:494-541)
BeginDraft(s) ==
    \E seed_in \in {JNull, JObj(CompletePayload["RISK_NOTE"])} :
        LET op == "create_or_reuse_draft"
            case_id == "c1"
            event_type == strip(" RISK_NOTE")
            args == RequestArgs(case_id, event_type, 0, seed_in)
            seed_payload == IF Truthy(seed_in) THEN seed_in ELSE JObj(EmptyDict)
            ts == parse_event_ts(JNull, now)
        IN  IF event_type \notin EVENT_TYPES
            THEN Begins(s, Refused(op, args, 400,
                                   "Invalid event_type. Allowed: sorted(EVENT_TYPES)"))
            ELSE IF seed_payload.t # "obj"
            THEN Begins(s, Refused(op, args, 400, "seed_payload must be a JSON object"))
            ELSE IF first_draft(case_id, event_type) # {}
            THEN \E id \in first_draft(case_id, event_type) :
                   LET existing == events[id]
                       existing_payload == or_empty(existing.payload)
                   IN  IF existing_payload = EmptyDict /\ Truthy(seed_payload)
                       THEN Begins(s, InFlight(op, args, "commit", existing,
                                      [kind |-> "update", id |-> id,
                                       columns |->
                                         [payload |-> deep_merge_replace_lists(
                                                          JObj(existing_payload),
                                                          seed_payload).v,
                                          updated_at |-> now]],
                                      0, NoError, NoEvent))
                       ELSE Begins(s, Answered200(op, args, existing, existing))
            ELSE Begins(s, InFlight(op, args, "commit", NoEvent,
                           [kind |-> "insert", id |-> 0,
                            columns |-> [case_id |-> case_id, event_ts |-> ts.ts,
                                         event_type |-> event_type,
                                         payload |-> seed_payload.v,
                                         status |-> STATUS_DRAFT, updated_at |-> now]],
                           0, NoError, NoEvent))

\* The patches sent while requests interleave: to the key note, to the key
\* action, and one that makes the payload invalid.
FlightPatches ==
    {JObj([note |-> JStr("p")]), JObj([action |-> JStr("HEDGE")]),
     JObj([severity |-> JStr("BOGUS")])}

\* patch_draft_event up to db.commit() (events.py:566-585)
BeginPatch(s) ==
    \E event_id \in EventIds, payload_patch \in FlightPatches :
        LET op == "patch_draft_event"
            case_id == "c1"
            args == RequestArgs(case_id, "", event_id, payload_patch)
        IN  IF payload_patch.t # "obj"
            THEN Begins(s, Refused(op, args, 400, "payload_patch must be a JSON object"))
            ELSE IF find_event(event_id, case_id) = {}
            THEN Begins(s, Refused(op, args, 404, "Not found"))
            ELSE IF events[event_id].status # STATUS_DRAFT
            THEN Begins(s, Refused(op, args, 409, "Only DRAFT events can be patched"))
            ELSE LET de == events[event_id]
                     current == or_empty(de.payload)
                     merged == deep_merge_replace_lists(JObj(current), payload_patch).v
                 IN  Begins(s, InFlight(op, args, "commit", de,
                                [kind |-> "update", id |-> event_id,
                                 columns |->
                                   IF merged = de.payload THEN [updated_at |-> now]
                                   ELSE [payload |-> merged, updated_at |-> now]],
                                0, NoError, NoEvent))

\* finalize_event up to db.commit() (events.py:599-627)
BeginFinalize(s) ==
    \E event_id \in EventIds :
        LET op == "finalize_event"
            case_id == "c1"
            args == RequestArgs(case_id, "", event_id, JNull)
        IN  IF find_event(event_id, case_id) = {}
            THEN Begins(s, Refused(op, args, 404, "Not found"))
            ELSE IF events[event_id].status # STATUS_DRAFT
            THEN Begins(s, Refused(op, args, 409, "Only DRAFT events can be finalized"))
            ELSE LET de == events[event_id]
                     payload == or_empty(de.payload)
                     missing == compute_missing_fields(de.event_type, payload)
                     invalid == validate_payload(de.event_type, payload)
                 IN  IF missing # <<>>
                     THEN Begins(s, Refused(op, args, 409, MissingFieldsError))
                     ELSE IF invalid = TypeErrorUnhashable
                     THEN Begins(s, Refused(op, args, 500, invalid))
                     ELSE IF invalid # NoError
                     THEN Begins(s, Refused(op, args, 400, invalid))
                     ELSE Begins(s, InFlight(op, args, "commit", de,
                                    [kind |-> "update", id |-> event_id,
                                     columns |-> [status |-> STATUS_FINAL,
                                                  updated_at |-> now]],
                                    0, NoError, NoEvent))

\* db.commit(); db.refresh(de); return: the INSERT, or the UPDATE of the
\* changed columns of the row, is flushed and committed, and the response
\* carries the row as it then is.  An INSERT that the table rejects raises
\* IntegrityError, which no handler catches.
Commit(s) ==
    LET flight == last.of[s]
        write == flight.write
    IN  /\ flight.pc = "commit"
        /\ UNCHANGED <<now, snapshots>>
        /\ IF write.kind = "insert"
           THEN LET de == DecisionEvent(Len(events) + 1, write.columns.case_id,
                                        write.columns.event_ts, write.columns.event_type,
                                        write.columns.payload, write.columns.status,
                                        write.columns.updated_at, now)
                IN  IF store_accepts(Append(events, de))
                    THEN /\ Len(events) < MaxEvents
                         /\ events' = Append(events, de)
                         /\ last' = [last EXCEPT !.of[s] =
                                       Answered200(flight.op, flight.args, flight.seen, de)]
                    ELSE /\ UNCHANGED events
                         /\ last' = [last EXCEPT !.of[s] =
                                       [Refused(flight.op, flight.args, 500, IntegrityError)
                                          EXCEPT !.seen = flight.seen]]
           ELSE LET row == events[write.id]
                    de == [c \in DOMAIN row |->
                             IF c \in DOMAIN write.columns THEN write.columns[c]
                             ELSE row[c]]
                IN  /\ events' = [events EXCEPT ![write.id] = de]
                    /\ last' = [last EXCEPT !.of[s] =
                                  Answered200(flight.op, flight.args, flight.seen, de)]

\* The requests interleave within one instant of the clock.
NextFlights ==
    \/ \E s \in Sessions : BeginDraft(s)
    \/ \E s \in Sessions : BeginPatch(s)
    \/ \E s \in Sessions : BeginFinalize(s)
    \/ \E s \in Sessions : Commit(s)

SpecFlights == InitFlights /\ [][NextFlights]_vars

\* ---------------------------------------------------------------------
\* The two paths to FINAL: draft then finalize, and strict insert
\* ---------------------------------------------------------------------

DeltaKeys == {"drivers_delta", "risks_delta", "triggers_delta"}

\* Objects that are no {add: [strings], remove: [strings]}.
ShallowDeltas ==
    {JObj(EmptyDict),
     JObj([add |-> JList(<<JStr("a")>>)]),
     JObj([remove |-> JList(<<>>)]),
     JObj([add |-> JStr("a"), remove |-> JList(<<>>)]),
     JObj([add |-> JList(<<JInt(1)>>), remove |-> JList(<<>>)]),
     JObj([add |-> JList(<<>>), remove |-> JNull])}

\* Objects that do not hold the three boolean members of constraints.
ShallowConstraints ==
    {JObj(EmptyDict),
     JObj([adv_cap_binding |-> JBool(FALSE), gross_cap_binding |-> JBool(TRUE)]),
     JObj([adv_cap_binding |-> JInt(1), gross_cap_binding |-> JBool(TRUE),
           net_cap_binding |-> JBool(FALSE)]),
     JObj([adv_cap_binding |-> JBool(FALSE), gross_cap_binding |-> JStr("true"),
           net_cap_binding |-> JBool(FALSE)]),
     JObj([adv_cap_binding |-> JBool(FALSE), gross_cap_binding |-> JBool(TRUE),
           net_cap_binding |-> JNull])}

\* The complete payload of the event type with one object field shallow.
ShallowPayloads(event_type) ==
    IF event_type = "THESIS_UPDATE"
    THEN {alter(CompletePayload[event_type], [k \in {delta_key} |-> d]) :
            delta_key \in DeltaKeys, d \in ShallowDeltas}
    ELSE IF event_type = "RESIZE"
    THEN {alter(CompletePayload[event_type], [k \in {"constraints"} |-> c]) :
            c \in ShallowConstraints}
    ELSE {}

\* The complete payload of the event type with one field null, an empty
\* list, an invalid value or removed.
NullablePayloads(event_type) ==
    LET base == CompletePayload[event_type]
        With(k, v) == alter(base, [x \in {k} |-> v])
    IN  CASE event_type = "INITIATE" ->
                {With("position_intent_pct", JNull), With("key_drivers", JList(<<>>))}
          [] event_type = "RISK_NOTE" ->
                {With("due_by", JNull), With("severity", JStr("BOGUS")),
                 With("note", Absent)}
          [] event_type = "RESIZE" -> {With("from_pct", JNull)}
          [] event_type = "TICKER_RULE" -> {With("tags", JList(<<>>))}
          [] event_type = "POST_MORTEM" ->
                {With("lesson", JNull), With("rule_violations", JList(<<>>))}
          [] OTHER -> {}

PathPayloads(event_type) ==
    {CompletePayload[event_type]} \cup ShallowPayloads(event_type)
        \cup NullablePayloads(event_type)

\* The first request of the case: create_or_reuse_draft with the payload as
\* seed_payload.
DraftHolding ==
    /\ events = <<>>
    /\ \E event_type \in EVENT_TYPES :
          \E payload \in PathPayloads(event_type) :
              create_or_reuse_draft("c1", event_type, JObj(payload), JNull)

\* add_event with the event type and the payload of an event of the case
StrictInsert ==
    \E id \in 1..Len(events) :
        add_event("c1", Envelope(IsoZ, JStr(events[id].event_type),
                                 JObj(events[id].payload)))

NextPaths ==
    \/ DraftHolding
    \/ FinalizeEvent
    \/ StrictInsert

SpecPaths == Init /\ [][NextPaths]_vars

\* ---------------------------------------------------------------------
\* Properties
\* ---------------------------------------------------------------------

Rows == 1..Len(events)

IsDraft(i) == events[i].status = STATUS_DRAFT

IsFinal(i) == events[i].status = STATUS_FINAL

\* The step is the handling of a request to op: the handlers, unlike the
\* passing of time, answer without advancing the clock.
Answered(op) == last'.op = op /\ now' = now

\* The JSON objects among the patch requests.
PatchObjects == {r[2] : r \in {q \in PatchRequests : q[2].t = "obj"}}

\* C1: once an event is FINAL, no operation changes its payload.
C1_FinalPayloadNeverChanges ==
    [][\A i \in Rows : IsFinal(i) => events'[i].payload = events[i].payload]_vars

\* C2: status is one-way.  A FINAL event stays FINAL, and the only status
\* change made to an existing event is DRAFT to FINAL, made by a successful
\* finalize of that event.
C2_StatusOneWay ==
    [][\A i \in Rows :
        /\ IsFinal(i) => events'[i].status = STATUS_FINAL
        /\ events'[i].status # events[i].status =>
              /\ IsDraft(i)
              /\ events'[i].status = STATUS_FINAL
              /\ last'.op = "finalize_event"
              /\ last'.code = 200
              /\ last'.event.id = i]_vars

\* A FINAL event of a pair for which a later create-or-reuse-draft succeeded
\* with another event.
C2_Witness ==
    /\ last.op = "create_or_reuse_draft"
    /\ last.code = 200
    /\ \E i \in Rows :
          /\ IsFinal(i)
          /\ i # last.event.id
          /\ events[i].case_id = last.event.case_id
          /\ events[i].event_type = last.event.event_type

\* C3: on a FINAL event, patch (with any patch object) and finalize both fail
\* with 409 "Only DRAFT events can be ..." and leave the table unchanged.
C3_NonDraftRejected ==
    [][\A i \in Rows : IsFinal(i) =>
        /\ \A p \in PatchObjects :
              (Answered("patch_draft_event") /\ patch_draft_event(events[i].case_id, i, p)) =>
                  /\ last'.code = 409
                  /\ last'.detail = "Only DRAFT events can be patched"
                  /\ events' = events
        /\ (Answered("finalize_event") /\ finalize_event(events[i].case_id, i)) =>
              /\ last'.code = 409
              /\ last'.detail = "Only DRAFT events can be finalized"
              /\ events' = events]_vars

\* A patch of a FINAL event was answered, at a time after its last write.
C3_Witness ==
    /\ last.op = "patch_draft_event"
    /\ last.code = 409
    /\ last.args.event_id \in Rows
    /\ IsFinal(last.args.event_id)
    /\ events[last.args.event_id].updated_at < now

\* C4: at most one DRAFT event per (case_id, event_type).
C4_OneDraftPerPair ==
    \A i, j \in Rows :
        (/\ IsDraft(i) /\ IsDraft(j)
         /\ events[i].case_id = events[j].case_id
         /\ events[i].event_type = events[j].event_type) => i = j

\* A pair that holds a FINAL event and a DRAFT handed out by create-or-reuse-draft.
C4_Witness ==
    /\ last.op = "create_or_reuse_draft"
    /\ last.code = 200
    /\ last.event.status = STATUS_DRAFT
    /\ last.repeat
    /\ \E i \in Rows :
          /\ IsFinal(i)
          /\ events[i].case_id = last.event.case_id
          /\ events[i].event_type = last.event.event_type

\* C5: a create-or-reuse-draft that follows a successful one for the same pair
\* with the same non-empty seed returns the same event id and writes nothing.
C5_DraftReuseIdempotent ==
    [][(/\ last.op = "create_or_reuse_draft"
        /\ last.code = 200
        /\ Truthy(last.args.seed_payload)
        /\ \E r \in DraftRequests :
              /\ r[1] = last.args.case_id
              /\ strip(r[2]) = strip(last.args.event_type)
              /\ r[3] = last.args.seed_payload
              /\ Answered("create_or_reuse_draft")
              /\ create_or_reuse_draft(r[1], r[2], r[3], r[4])
        /\ last'.code = 200)
       => /\ last'.event.id = last.event.id
          /\ events' = events]_vars

\* The second of two equal seeded calls was answered, later than the write of
\* the draft it returns.
C5_Witness ==
    /\ last.op = "create_or_reuse_draft"
    /\ last.code = 200
    /\ last.repeat
    /\ Truthy(last.args.seed_payload)
    /\ last.event.payload = last.args.seed_payload.v
    /\ last.event.updated_at < now

\* compute_missing_fields and validate_payload of row i
MissingOf(i) == compute_missing_fields(events[i].event_type, or_empty(events[i].payload))

InvalidOf(i) == validate_payload(events[i].event_type, or_empty(events[i].payload))

\* Every row but i is left as it was, and none is added.
OthersUnchanged(i) ==
    /\ Len(events') = Len(events)
    /\ \A j \in Rows : j # i => events'[j] = events[j]

\* C6: finalize of a DRAFT succeeds exactly when it has no missing field and
\* its payload passes validate_payload; on success the status becomes FINAL,
\* the payload is unchanged and the response carries status FINAL and an
\* empty missing-fields list.
C6_FinalizeSucceedsIffValid ==
    [][\A i \in Rows :
        (IsDraft(i) /\ Answered("finalize_event") /\ finalize_event(events[i].case_id, i)) =>
        /\ last'.code = 200 <=> (MissingOf(i) = <<>> /\ InvalidOf(i) = NoError)
        /\ last'.code = 200 =>
              /\ events'[i].status = STATUS_FINAL
              /\ events'[i].payload = events[i].payload
              /\ OthersUnchanged(i)
              /\ last'.event = events'[i]
              /\ last'.event.status = STATUS_FINAL
              /\ last'.missing_fields = <<>>]_vars

\* The complete INITIATE payload with conviction 60 was finalized.
C6_Witness ==
    /\ last.op = "finalize_event"
    /\ last.code = 200
    /\ last.event.event_type = "INITIATE"
    /\ last.event.payload = InitiateComplete
    /\ events[last.args.event_id].status = STATUS_FINAL

\* C7: finalize of a DRAFT with a missing required field fails with 409
\* missing_fields carrying the list compute_missing_fields returns, whether or
\* not the payload also violates the schema, and writes nothing.
C7_FinalizeMissingFields ==
    [][\A i \in Rows :
        (/\ IsDraft(i) /\ MissingOf(i) # <<>>
         /\ Answered("finalize_event") /\ finalize_event(events[i].case_id, i)) =>
            /\ last'.code = 409
            /\ last'.detail = MissingFieldsError
            /\ last'.missing_fields = MissingOf(i)
            /\ events' = events]_vars

\* Finalize answered missing_fields for a draft that holds only conviction 150:
\* seven fields are missing and the one present is out of range.
C7_Witness ==
    /\ last.op = "finalize_event"
    /\ last.detail = MissingFieldsError
    /\ Len(last.missing_fields) = 7
    /\ last.args.event_id \in Rows
    /\ events[last.args.event_id].payload = SeedA.v
    /\ IsDraft(last.args.event_id)
    /\ events[last.args.event_id].updated_at < now

\* C8: finalize of a DRAFT with no missing field whose payload violates a
\* type, enum or range rule fails with a ValidationError (400) and writes
\* nothing.
C8_FinalizeValidationError ==
    [][\A i \in Rows :
        (/\ IsDraft(i) /\ MissingOf(i) = <<>> /\ InvalidOf(i) # NoError
         /\ Answered("finalize_event") /\ finalize_event(events[i].case_id, i)) =>
            /\ last'.code = 400
            /\ last'.detail = InvalidOf(i)
            /\ events' = events]_vars

C10_StrictInsert ==
    [][\A r \in AddEventRequests : (Answered("add_event") /\ add_event(r[1], r[2])) =>
        /\ last'.code = 200 =>
              /\ validate_common(r[2]) = NoError
              /\ validate_payload(r[2]["event_type"].v, r[2]["payload"].v) = NoError
              /\ Len(events') = Len(events) + 1
              /\ SubSeq(events', 1, Len(events)) = events
              /\ events'[Len(events')].status = STATUS_FINAL
              /\ events'[Len(events')].case_id = r[1]
              /\ events'[Len(events')].payload = r[2]["payload"].v
              /\ last'.event = events'[Len(events')]
        /\ last'.code # 200 => events' = events]_vars

\* A strict insert succeeded for a pair that holds a DRAFT.
C10_Witness ==
    /\ last.op = "add_event"
    /\ last.code = 200
    /\ events[last.event.id].status = STATUS_FINAL
    /\ \E i \in Rows :
          /\ IsDraft(i)
          /\ events[i].case_id = last.event.case_id
          /\ events[i].event_type = last.event.event_type

\* C11: get_events returns exactly the FINAL events of the case, each once
\* and as stored, in non-decreasing order of event_ts; it returns no DRAFT
\* and no event of another case, and writes nothing.
C11_ListFinalEvents ==
    [][\A c \in Cases \cup {UnknownCase} :
        (Answered("get_events") /\ last'.args.case_id = c) =>
            LET out == last'.events
                final == {i \in Rows : IsFinal(i) /\ events[i].case_id = c}
            IN  /\ last'.code = 200
                /\ Len(out) = Cardinality(final)
                /\ {out[k].id : k \in DOMAIN out} = final
                /\ \A k \in DOMAIN out : out[k] = events[out[k].id]
                /\ \A j, k \in DOMAIN out :
                      j < k => out[j].event_ts <= out[k].event_ts
                /\ events' = events]_vars

\* get_events answered with one event for a case that also holds a DRAFT.
C11_Witness ==
    /\ last.op = "get_events"
    /\ Len(last.events) = 1
    /\ \E i \in Rows : IsDraft(i) /\ events[i].case_id = last.args.case_id

\* C12: the events replay returns, and the events a compiled snapshot counts,
\* are never DRAFT events.
C12_DerivedArtifactsReadNoDraft ==
    [][/\ (Answered("replay") /\ last'.code = 200) =>
              \A k \in DOMAIN last'.body.events :
                  last'.body.events[k].status # STATUS_DRAFT
       /\ (Answered("compile_thesis") /\ last'.code = 200) =>
              last'.body.narrative.n_events =
                  Cardinality({i \in thesis_events(last'.args.case_id, last'.args.asof) :
                                  ~IsDraft(i)})]_vars

\* C13: no step lowers the updated_at of an event, and every step that
\* changes the payload or the status of an event sets its updated_at to the
\* time of the step.
C13_UpdatedAtBumped ==
    [][\A i \in Rows :
        /\ events'[i].updated_at >= events[i].updated_at
        /\ (events'[i].payload # events[i].payload
              \/ events'[i].status # events[i].status) =>
                 events'[i].updated_at = now]_vars

\* A DRAFT created at one time was finalized at a later time.
C13_Witness ==
    /\ last.op = "finalize_event"
    /\ last.code = 200
    /\ events[last.event.id].updated_at > events[last.event.id].created_at

\* C14: a patch object sent to a DRAFT under its case succeeds: the payload
\* becomes the deep merge of the stored payload and the patch, the status
\* stays DRAFT, no other row changes, and the response carries the stored
\* event with compute_missing_fields of its new payload.
C14_PatchMerges ==
    [][\A r \in PatchRequests : \A i \in Rows :
        (/\ r[2].t = "obj" /\ IsDraft(i) /\ events[i].case_id = r[1]
         /\ Answered("patch_draft_event") /\ patch_draft_event(r[1], i, r[2])) =>
            /\ last'.code = 200
            /\ events'[i].payload =
                  deep_merge_replace_lists(JObj(or_empty(events[i].payload)), r[2]).v
            /\ events'[i].status = STATUS_DRAFT
            /\ last'.event = events'[i]
            /\ last'.missing_fields =
                  compute_missing_fields(events[i].event_type, events'[i].payload)
            /\ OthersUnchanged(i)]_vars

\* A patch of one key was merged into a complete payload: the other keys
\* were kept and nothing is missing.
C14_Witness ==
    /\ last.op = "patch_draft_event"
    /\ last.code = 200
    /\ last.event.payload = InitiateConviction150
    /\ last.missing_fields = <<>>
    /\ IsDraft(last.event.id)

\* C15: patch (of any patch object) and finalize addressed to a case and an
\* event id such that the case holds no event of that id, whether no event
\* has the id or the event belongs to another case, answer 404 and leave
\* the table as it was.
C15_NotFound ==
    [][\A c \in Cases : \A id \in EventIds :
        ~(id \in Rows /\ events[id].case_id = c) =>
            /\ (Answered("finalize_event") /\ finalize_event(c, id)) =>
                  (last'.code = 404 /\ events' = events)
            /\ \A p \in PatchObjects :
                  (Answered("patch_draft_event") /\ patch_draft_event(c, id, p)) =>
                      (last'.code = 404 /\ events' = events)]_vars

\* A request addressed a DRAFT through another case and was answered 404.
C15_Witness ==
    /\ last.op \in {"patch_draft_event", "finalize_event"}
    /\ last.code = 404
    /\ last.args.event_id \in Rows
    /\ IsDraft(last.args.event_id)
    /\ events[last.args.event_id].case_id # last.args.case_id

\* The DRAFT rows of a pair.
DraftsOf(case_id, event_type) ==
    {i \in Rows : /\ IsDraft(i)
                  /\ events[i].case_id = case_id
                  /\ events[i].event_type = event_type}

\* C16: a successful create_or_reuse_draft for a pair that has a DRAFT
\* returns that DRAFT; it stores merge({}, seed) and the time of the call in
\* updated_at when the stored payload is empty and the seed is a non-empty
\* object, and writes nothing otherwise, whatever seed and event_ts the call
\* carries.  For a pair without a DRAFT it appends a DRAFT whose payload is
\* the seed, or the empty object when no seed is given.  A refused call
\* writes nothing.
C16_SeedOnlyIntoEmptyDraft ==
    [][\A r \in DraftRequests :
        (/\ Answered("create_or_reuse_draft")
         /\ create_or_reuse_draft(r[1], r[2], r[3], r[4])) =>
            LET drafts == DraftsOf(r[1], strip(r[2]))
                seeded == r[3].t = "obj" /\ r[3].v # EmptyDict
            IN  /\ last'.code # 200 => events' = events
                /\ (last'.code = 200 /\ drafts # {}) =>
                      \E i \in drafts :
                        /\ last'.event = events'[i]
                        /\ OthersUnchanged(i)
                        /\ IF or_empty(events[i].payload) = EmptyDict /\ seeded
                           THEN events'[i] =
                                  [events[i] EXCEPT
                                     !.payload = deep_merge_replace_lists(
                                                     JObj(EmptyDict), r[3]).v,
                                     !.updated_at = now]
                           ELSE events'[i] = events[i]
                /\ (last'.code = 200 /\ drafts = {}) =>
                      /\ Len(events') = Len(events) + 1
                      /\ SubSeq(events', 1, Len(events)) = events
                      /\ last'.event = events'[Len(events')]
                      /\ last'.event.status = STATUS_DRAFT
                      /\ last'.event.payload = IF seeded THEN r[3].v ELSE EmptyDict]_vars

\* The seed was applied to an empty DRAFT created at an earlier time: the
\* payload is the seed, updated_at is later than created_at and event_ts is
\* still that of the creation.
C16_Witness ==
    /\ last.op = "create_or_reuse_draft"
    /\ last.code = 200
    /\ last.event.payload = SeedA.v
    /\ last.event.updated_at > last.event.created_at
    /\ last.event.event_ts = last.event.created_at
    /\ last.event.event_ts < now

Merged == last.op = "deep_merge_replace_lists"

\* C17: merging a JSON value into itself returns it.
C17_MergeIdempotent ==
    (Merged /\ last.args.patch = last.args.base) => last.result = last.args.base

\* An object holding a null, a list and a nested object was merged into itself.
C17_Witness ==
    /\ Merged
    /\ last.args.patch = last.args.base
    /\ last.args.base =
          JObj([a |-> JObj([a |-> JNull, b |-> JList(<<JInt(3)>>)]), b |-> JNull])

\* Wherever the patch holds a list, at the top or under keys at any depth,
\* out holds the same list under the same keys.
RECURSIVE ListsKept(_, _)
ListsKept(patch, out) ==
    IF patch.t = "list" THEN out = patch
    ELSE IF patch.t = "obj"
    THEN /\ out.t = "obj"
         /\ \A k \in DOMAIN patch.v :
               k \in DOMAIN out.v /\ ListsKept(patch.v[k], out.v[k])
    ELSE TRUE

\* C18: every list of the patch is in the merged value as it is in the
\* patch, whatever the base holds in its place.
C18_MergeReplacesLists ==
    Merged => ListsKept(last.args.patch, last.result)

\* merge({a: [1, 2]}, {a: [3]}) = {a: [3]}
C18_Witness ==
    /\ Merged
    /\ last.args.base = JObj([a |-> JList(<<JInt(1), JInt(2)>>)])
    /\ last.args.patch = JObj([a |-> JList(<<JInt(3)>>)])
    /\ last.result = JObj([a |-> JList(<<JInt(3)>>)])

\* C19: a null at a key of the patch is the value at that key of the merged
\* object, whether or not the base has the key.
C19_MergeNullReplaces ==
    (Merged /\ last.args.base.t = "obj" /\ last.args.patch.t = "obj") =>
        \A k \in DOMAIN last.args.patch.v :
            last.args.patch.v[k] = JNull =>
                (k \in DOMAIN last.result.v /\ last.result.v[k] = JNull)

MergedObjects == last.op = "py_deep_merge"

\* The key rules between a base, a patch and the merged value: for two
\* objects the merged value is an object over the keys of both; a key of
\* the base alone has its base value, a key of the patch alone its patch
\* value, and a key of both follows the same rules.  A patch that is not
\* null, against a base or a patch that is not an object, is the merged
\* value.  (A null of the patch is the matter of C19.)
RECURSIVE KeyRules(_, _, _)
KeyRules(base, patch, out) ==
    IF base.t = "obj" /\ patch.t = "obj"
    THEN /\ out.t = "obj"
         /\ DOMAIN out.v = (DOMAIN base.v) \cup (DOMAIN patch.v)
         /\ \A k \in (DOMAIN base.v) \ (DOMAIN patch.v) : out.v[k] = base.v[k]
         /\ \A k \in (DOMAIN patch.v) \ (DOMAIN base.v) : out.v[k] = patch.v[k]
         /\ \A k \in (DOMAIN base.v) \cap (DOMAIN patch.v) :
               KeyRules(base.v[k], patch.v[k], out.v[k])
    ELSE IF patch.t = "null" THEN TRUE
    ELSE out = patch

\* x is a JSON value whose objects nest at most depth deep.
RECURSIVE IsJsonValue(_, _)
IsJsonValue(x, depth) ==
    \/ x \in MergeLeaves
    \/ /\ depth > 0
       /\ x.t = "obj"
       /\ DOMAIN x.v \subseteq MergeKeys
       /\ \A k \in DOMAIN x.v : IsJsonValue(x.v[k], depth - 1)

RECURSIVE WhitespaceOnly(_)
WhitespaceOnly(s) ==
    Len(s) = 0 \/ (SubSeq(s, 1, 1) \in Whitespace /\ WhitespaceOnly(SubSeq(s, 2, Len(s))))

\* The field counts as missing: absent, null, a whitespace-only string, an
\* empty list, or, for the four object fields, present but not an object.
CountsAsMissing(k, payload) ==
    \/ k \notin DOMAIN payload
    \/ /\ k \in DOMAIN payload
       /\ \/ payload[k] = JNull
          \/ payload[k].t = "str" /\ WhitespaceOnly(payload[k].v)
          \/ payload[k] = JList(<<>>)
          \/ /\ k \in {"drivers_delta", "risks_delta", "triggers_delta", "constraints"}
             /\ payload[k].t # "obj"

\* The place of field k in the declared required fields of an event type.
DeclaredPlace(event_type, k) ==
    CHOOSE i \in 1..Len(required_by_type[event_type]) :
        required_by_type[event_type][i] = k

\* C21: for each of the six event types and every payload,
\* compute_missing_fields returns exactly the required fields that count as
\* missing, each once, in the declared order of the event type; for an
\* unknown event type it returns the empty list.
C21_MissingFieldsExact ==
    last.op = "compute_missing_fields" =>
        LET event_type == last.args.event_type
            payload == last.args.payload
            out == last.missing_fields
        IN  IF event_type \in EVENT_TYPES
            THEN LET required == required_by_type[event_type]
                     fields == {required[i] : i \in 1..Len(required)}
                 IN  /\ {out[i] : i \in 1..Len(out)} =
                            {k \in fields : CountsAsMissing(k, payload)}
                     /\ \A i, j \in 1..Len(out) :
                            i < j => DeclaredPlace(event_type, out[i])
                                        < DeclaredPlace(event_type, out[j])
            ELSE out = <<>>

\* A THESIS_UPDATE payload whose update_summary is whitespace and whose
\* drivers_delta is a list: the two are returned, in the declared order.
C21_Witness ==
    /\ last.op = "compute_missing_fields"
    /\ last.args.event_type = "THESIS_UPDATE"
    /\ {"update_summary", "drivers_delta"} \subseteq DOMAIN last.args.payload
    /\ last.args.payload["update_summary"] = JStr(" \n")
    /\ last.args.payload["drivers_delta"] = JList(<<JStr("x")>>)
    /\ last.missing_fields = <<"update_summary", "drivers_delta">>

\* The string sub occurs in the string s.
Contains(s, sub) ==
    \E i \in 1..(Len(s) - Len(sub) + 1) : SubSeq(s, i, i + Len(sub) - 1) = sub

\* The detail of a validation error names field k of the event type: as the
\* missing key 'k', or as <event_type>.k, possibly followed by a sub-field.
NamesField(detail, event_type, k) ==
    \/ Contains(detail, "'" \o k \o "'")
    \/ Contains(detail, event_type \o "." \o k \o " ")
    \/ Contains(detail, event_type \o "." \o k \o ".")

\* The payload violates the rules of field k: a payload that is complete and
\* valid in every other field, and holds for k what the payload holds (or
\* lacks k as the payload does), is not accepted.
ViolatesField(event_type, k, payload) ==
    LET base == CompletePayload[event_type]
        only_k == IF k \in DOMAIN payload
                  THEN [base EXCEPT ![k] = payload[k]]
                  ELSE [x \in (DOMAIN base) \ {k} |-> base[x]]
    IN  validate_payload(event_type, only_k) # NoError

\* C22: validate_payload returns when no required field is violated, and
\* otherwise fails with a validation error (400) that names the violated
\* field that comes first in the declared required fields of the event type.
C22_FirstOffendingField ==
    (last.op = "validate_payload" /\ last.args.event_type \in EVENT_TYPES) =>
        LET event_type == last.args.event_type
            required == required_by_type[event_type]
            offending == {i \in 1..Len(required) :
                            ViolatesField(event_type, required[i], last.args.payload)}
        IN  IF offending = {}
            THEN last.code = 200
            ELSE /\ last.code = 400
                 /\ NamesField(last.detail, event_type,
                               required[CHOOSE i \in offending :
                                            \A j \in offending : i <= j])

\* The request was answered by /llm/interpret.
Interpreted == last.op = "llm_interpret"

\* The request was answered with a response body (no error left the handler).
InterpretedOk == Interpreted /\ last.code = 200

\* The request got as far as the oracle, and the oracle returned a value.
OracleAnswered == Interpreted /\ last.args.body \in GatedBodies /\ last.args.oracle.t # "raise"

\* A field of the output of the oracle (null when there is none).
OracleField(k) ==
    IF last.args.oracle.t = "obj" THEN dict_get(last.args.oracle.v, k) ELSE JNull

\* The tickers allowed by the requests that reach the oracle: the uppercase
\* tickers of the list given, or else the uppercase tokens of the text.
RequestAllowed(body) ==
    CASE body = ScenarioBody -> {"AAPL"}
      [] body = TwoTickersBody -> {"AAPL", "MSFT"}
      [] body = PendingBody -> {"AAPL"}
      [] body = AnswerableBody -> {"AAPL"}
      [] body = EmptyPendingBody -> {"AAPL"}
      [] OTHER -> {}

\* The actions carried by the response: the action of an EXECUTE response,
\* the actions of the choices of a CLARIFY response.
EmittedActions ==
    IF ~InterpretedOk THEN {}
    ELSE IF last.body.mode = "EXECUTE" THEN {last.body.action}
    ELSE IF last.body.mode = "CLARIFY"
    THEN {last.body.clarify.choices[i].action : i \in DOMAIN last.body.clarify.choices}
    ELSE {}

\* C23: every action of a response (of an EXECUTE response, of every choice
\* of a CLARIFY response) that names a ticker names one of the allowed
\* tickers of the request.
C23_TickerGate ==
    \A a \in EmittedActions :
        dict_get(a.v, "ticker") # JNull =>
            /\ dict_get(a.v, "ticker").t = "str"
            /\ dict_get(a.v, "ticker").v \in RequestAllowed(last.args.body)

\* With AAPL alone allowed, the oracle offered the choices AAPL, MSFT and
\* events: the response is a CLARIFY with the choices AAPL and events.
C23_Witness ==
    /\ InterpretedOk
    /\ last.args.body = ScenarioBody
    /\ OracleField("clarify") =
          Clarify(JStr("Which?"),
                  JList(<<ChoiceOptions[1], ChoiceOptions[3], ChoiceOptions[2]>>))
    /\ last.body.mode = "CLARIFY"
    /\ last.body.clarify.choices =
          <<[label |-> "AAPL", action |-> ChoiceOptions[1].v["action"]],
            [label |-> "events", action |-> ChoiceOptions[2].v["action"]]>>

\* With AAPL alone allowed, the oracle returned an action naming MSFT.
MsftScenario ==
    /\ OracleAnswered
    /\ last.args.body = ScenarioBody
    /\ OracleField("action").t = "obj"
    /\ dict_get(OracleField("action").v, "ticker") = JStr("MSFT")

\* The confidence reported by the oracle, in tenths (for a number).
OracleTenths == Tenths(OracleField("confidence"))

\* The event type of the oracle's action, or of the action of one of its
\* choices, is a list or an object (which no set or dict can look up).
UnhashableEventType ==
    LET Unhashable(a) ==
            a.t = "obj" /\ dict_get(a.v, "event_type").t \in {"list", "obj"}
        clarify == OracleField("clarify")
        choices == IF clarify.t = "obj" THEN dict_get(clarify.v, "choices") ELSE JNull
    IN  \/ Unhashable(OracleField("action"))
        \/ /\ choices.t = "list"
           /\ \E i \in DOMAIN choices.v :
                 choices.v[i].t = "obj" /\ Unhashable(dict_get(choices.v[i].v, "action"))

C25_EventTypeGate ==
    \A a \in EmittedActions :
        dict_get(a.v, "event_type") # JNull =>
            /\ dict_get(a.v, "event_type").t = "str"
            /\ dict_get(a.v, "event_type").v \in
                   {"INITIATE", "THESIS_UPDATE", "RISK_NOTE", "RESIZE", "TICKER_RULE",
                    "POST_MORTEM"}

\* The oracle offered the choices AAPL, events and one of the event type
\* BOGUS: the response is a CLARIFY with the choices AAPL and events.
C25_Witness ==
    /\ InterpretedOk
    /\ last.args.body = ScenarioBody
    /\ OracleField("clarify").t = "obj"
    /\ dict_get(OracleField("clarify").v, "choices").t = "list"
    /\ \E i \in DOMAIN dict_get(OracleField("clarify").v, "choices").v :
          dict_get(OracleField("clarify").v, "choices").v[i] =
              Choice("bogus", OracleAction(JStr("START_EVENT"), JStr("AAPL"),
                                           JStr("BOGUS"), JNull, JNull))
    /\ last.body.mode = "CLARIFY"
    /\ last.body.clarify.choices =
          <<[label |-> "AAPL", action |-> ChoiceOptions[1].v["action"]],
            [label |-> "events", action |-> ChoiceOptions[2].v["action"]]>>

\* The pending field of the requests that reach the oracle (none for the
\* others: no draft, a pending field that is no string, or an empty one), and
\* the answerable fields of those that list them.
FieldContext(body) ==
    CASE body = PendingBody ->
            [pending |-> {"note"}, listed |-> TRUE, answerable |-> {"note", "severity"}]
      [] body \in {AnswerableBody, EmptyPendingBody} ->
            [pending |-> {}, listed |-> TRUE, answerable |-> {"note", "severity"}]
      [] OTHER ->
            [pending |-> {}, listed |-> FALSE, answerable |-> {}]

\* C26: an ANSWER_FIELD action of a response names a field; with a pending
\* field set it is that field; with none set, a list of answerable fields is
\* set and the field is in it.  (So with neither, no ANSWER_FIELD action is
\* in a response, and with a pending field set, a different field of the
\* answerable list is not admitted.)
C26_FieldGate ==
    \A a \in EmittedActions :
        dict_get(a.v, "type") = JStr("ANSWER_FIELD") =>
            LET field == dict_get(a.v, "field")
                context == FieldContext(last.args.body)
            IN  /\ field.t = "str"
                /\ field.v # ""
                /\ IF context.pending # {}
                   THEN field.v \in context.pending
                   ELSE context.listed /\ field.v \in context.answerable

\* With the pending field note, the oracle's ANSWER_FIELD for note is the
\* action of an EXECUTE response.
C26_Witness ==
    /\ InterpretedOk
    /\ last.args.body = PendingBody
    /\ last.body.mode = "EXECUTE"
    /\ dict_get(last.body.action.v, "type") = JStr("ANSWER_FIELD")
    /\ dict_get(last.body.action.v, "field") = JStr("note")

\* The keys a seed may keep, by the event type of its action.
SeedKeys(event_type) ==
    CASE event_type = JStr("THESIS_UPDATE") -> {"update_summary"}
      [] event_type = JStr("RISK_NOTE") -> {"note"}
      [] event_type = JStr("RESIZE") -> {"rationale"}
      [] event_type = JStr("TICKER_RULE") -> {"rule_text"}
      [] event_type = JStr("POST_MORTEM") -> {"lesson"}
      [] OTHER -> {}

\* The action given is the oracle's action with its seed cut down: nothing
\* else differs, a key of the seed is an allowed key of the oracle's seed
\* with the oracle's value, and no allowed key of the oracle's seed is lost.
SeedCutDown(given, from) ==
    LET seed == dict_get(given.v, "seed_payload")
        seed_from == dict_get(from.v, "seed_payload")
        keys == SeedKeys(dict_get(given.v, "event_type"))
    IN  /\ \A k \in (DOMAIN given.v \cup DOMAIN from.v) \ {"seed_payload"} :
              k \in DOMAIN given.v /\ k \in DOMAIN from.v /\ given.v[k] = from.v[k]
        /\ seed.t \in {"null", "obj"}
        /\ seed.t = "obj" =>
              /\ seed_from.t = "obj"
              /\ DOMAIN seed.v \subseteq keys \cap DOMAIN seed_from.v
              /\ \A k \in DOMAIN seed.v : seed.v[k] = seed_from.v[k]
        /\ (seed_from.t = "obj" /\ seed_from.v # EmptyDict /\ keys # {}) =>
              /\ seed.t = "obj"
              /\ keys \cap DOMAIN seed_from.v \subseteq DOMAIN seed.v

\* C27: in every action of a response the seed has only keys allowed for
\* the event type of the action (none for INITIATE and for no event type);
\* and in a response built from the oracle's output, each action is an
\* action of the oracle (its action for EXECUTE, the action of one of its
\* choices, of the same label, for CLARIFY) with the seed cut down to the
\* allowed keys, their values kept.
C27_SeedSanitized ==
    /\ \A a \in EmittedActions :
          LET seed == dict_get(a.v, "seed_payload")
          IN  /\ seed.t = "obj" =>
                    DOMAIN seed.v \subseteq SeedKeys(dict_get(a.v, "event_type"))
              /\ dict_get(a.v, "event_type") \in {JNull, JStr("INITIATE")} => seed = JNull
    /\ (InterpretedOk /\ OracleAnswered /\ last.body.mode = "EXECUTE") =>
          SeedCutDown(last.body.action, OracleField("action"))
    /\ (InterpretedOk /\ OracleAnswered /\ last.body.mode = "CLARIFY") =>
          \A i \in DOMAIN last.body.clarify.choices :
              \E j \in DOMAIN OracleField("clarify").v["choices"].v :
                  LET from == OracleField("clarify").v["choices"].v[j]
                  IN  /\ from.t = "obj"
                      /\ dict_get(from.v, "label") = JStr(last.body.clarify.choices[i].label)
                      /\ dict_get(from.v, "action").t = "obj"
                      /\ SeedCutDown(last.body.clarify.choices[i].action,
                                     dict_get(from.v, "action"))

\* The seed {update_summary: "ok", conviction_delta: 999} of a THESIS_UPDATE
\* action became {update_summary: "ok"} in the EXECUTE response.
C27_Witness ==
    /\ InterpretedOk
    /\ OracleField("action") =
          OracleAction(JStr("START_EVENT"), JStr("AAPL"), JStr("THESIS_UPDATE"),
                       JNull, ScenarioSeed)
    /\ last.body.mode = "EXECUTE"
    /\ last.body.action =
          OracleAction(JStr("START_EVENT"), JStr("AAPL"), JStr("THESIS_UPDATE"),
                       JNull, JObj([update_summary |-> JStr("ok")]))

\* An action of the oracle passes the three gates for the request: its
\* ticker, if any, is allowed; its event type, if any, is one of the six; and
\* an ANSWER_FIELD names the pending field, or with none pending a field of
\* the answerable list.
PassesGates(a, body) ==
    /\ a.t = "obj"
    /\ LET ticker == dict_get(a.v, "ticker")
           event_type == dict_get(a.v, "event_type")
           field == dict_get(a.v, "field")
           context == FieldContext(body)
       IN  /\ ticker # JNull => (ticker.t = "str" /\ ticker.v \in RequestAllowed(body))
           /\ event_type # JNull =>
                 event_type \in {JStr("INITIATE"), JStr("THESIS_UPDATE"), JStr("RISK_NOTE"),
                                 JStr("RESIZE"), JStr("TICKER_RULE"), JStr("POST_MORTEM")}
           /\ dict_get(a.v, "type") = JStr("ANSWER_FIELD") =>
                 /\ field.t = "str"
                 /\ field.v # ""
                 /\ IF context.pending # {} THEN field.v \in context.pending
                    ELSE context.listed /\ field.v \in context.answerable

\* C28: a response is an EXECUTE only if the oracle reported the mode
\* EXECUTE with a confidence of 0.80 or more and its action passes the
\* three gates; and for a confidence below 0.80 the response is a CLARIFY or
\* a NOOP without a top-level action.
C28_LowConfidenceNeverExecutes ==
    /\ (InterpretedOk /\ last.body.mode = "EXECUTE") =>
          /\ OracleAnswered
          /\ OracleField("mode") = JStr("EXECUTE")
          /\ \/ IsNumber(OracleField("confidence")) /\ OracleTenths >= 8
             \/ OracleField("confidence") = JStr("0.9")
          /\ PassesGates(OracleField("action"), last.args.body)
    /\ (InterpretedOk /\ OracleAnswered
          /\ IsNumber(OracleField("confidence")) /\ OracleTenths < 8) =>
          /\ last.body.mode \in {"CLARIFY", "NOOP"}
          /\ last.body.action = JNull

\* An oracle EXECUTE of confidence 0.7 whose action passes the gates is
\* answered by a CLARIFY without a top-level action.
C28_Witness ==
    /\ InterpretedOk
    /\ OracleAnswered
    /\ OracleField("mode") = JStr("EXECUTE")
    /\ OracleField("confidence") = JFloat(7)
    /\ PassesGates(OracleField("action"), last.args.body)
    /\ last.body.mode = "CLARIFY"
    /\ last.body.action = JNull

\* The positions of the valid choices of a list of choices of the oracle:
\* an object with a string label and an action that passes the gates.
ValidChoices(choices, body) ==
    {i \in DOMAIN choices :
        /\ choices[i].t = "obj"
        /\ dict_get(choices[i].v, "label").t = "str"
        /\ PassesGates(dict_get(choices[i].v, "action"), body)}

\* A valid clarify payload: a question and 2 to 5 choices, of which two at
\* least are valid.
ValidClarify(clarify, body) ==
    /\ clarify.t = "obj"
    /\ dict_get(clarify.v, "question").t = "str"
    /\ dict_get(clarify.v, "choices").t = "list"
    /\ Len(dict_get(clarify.v, "choices").v) \in 2..5
    /\ Cardinality(ValidChoices(dict_get(clarify.v, "choices").v, body)) >= 2

\* C29: an oracle EXECUTE of confidence in [0.40, 0.80) is answered by a
\* CLARIFY when its clarify payload is valid and by the default no-op when
\* it is not; an oracle EXECUTE or CLARIFY of confidence below 0.40 is
\* answered by the default no-op.
C29_DowngradeChain ==
    (OracleAnswered /\ IsNumber(OracleField("confidence"))) =>
        /\ (OracleField("mode") = JStr("EXECUTE") /\ OracleTenths >= 4 /\ OracleTenths < 8) =>
              /\ last.code = 200
              /\ IF ValidClarify(OracleField("clarify"), last.args.body)
                 THEN last.body.mode = "CLARIFY"
                 ELSE last.body = default_noop
        /\ (OracleField("mode") \in {JStr("EXECUTE"), JStr("CLARIFY")} /\ OracleTenths < 4) =>
              /\ last.code = 200
              /\ last.body = default_noop

\* The oracle's output is gated as a CLARIFY: its mode is CLARIFY with a
\* confidence of 0.40 or more, or EXECUTE with a confidence in [0.40, 0.80).
GatedAsClarify ==
    /\ OracleAnswered
    /\ IsNumber(OracleField("confidence"))
    /\ \/ OracleField("mode") = JStr("CLARIFY") /\ OracleTenths >= 4
       \/ OracleField("mode") = JStr("EXECUTE") /\ OracleTenths >= 4 /\ OracleTenths < 8

\* C30: a CLARIFY response built from the oracle's output has 2 to 5
\* choices, each with an action that passes the gates and a sanitized seed:
\* they are the valid choices of the oracle, in its order, the others
\* dropped.  With fewer than 2 valid choices, or fewer than 2 or more than 5
\* choices supplied, the response is the default no-op.
C30_ClarifyChoices ==
    /\ (InterpretedOk /\ OracleAnswered /\ last.body.mode = "CLARIFY") =>
          /\ GatedAsClarify
          /\ Len(last.body.clarify.choices) \in 2..5
          /\ \A i \in DOMAIN last.body.clarify.choices :
                PassesGates(last.body.clarify.choices[i].action, last.args.body)
    /\ (GatedAsClarify
          /\ OracleField("clarify").t = "obj"
          /\ dict_get(OracleField("clarify").v, "question").t = "str"
          /\ dict_get(OracleField("clarify").v, "choices").t = "list") =>
          LET choices == dict_get(OracleField("clarify").v, "choices").v
              valid == ValidChoices(choices, last.args.body)
              remain == SelectSeq([i \in DOMAIN choices |-> <<i, choices[i]>>],
                                  LAMBDA c : c[1] \in valid)
          IN  /\ last.code = 200
              /\ IF Len(choices) \notin 2..5 \/ Cardinality(valid) < 2
                 THEN last.body = default_noop
                 ELSE /\ last.body.mode = "CLARIFY"
                      /\ Len(last.body.clarify.choices) = Len(remain)
                      /\ \A i \in DOMAIN remain :
                            /\ JStr(last.body.clarify.choices[i].label) =
                                  dict_get(remain[i][2].v, "label")
                            /\ SeedCutDown(last.body.clarify.choices[i].action,
                                           dict_get(remain[i][2].v, "action"))

\* The tokens of the strict ticker shape in the text of a request, for the
\* texts of the requests of this specification.
TextTickers(body) ==
    LET text == IF "text" \in DOMAIN body THEN body["text"] ELSE JStr("")
    IN  CASE text = JStr("long AAPL") -> {"AAPL"}
          [] text = JStr("risk AAPL high") -> {"AAPL"}
          [] text = JStr("AAPL") -> {"AAPL"}
          [] text = JStr("AAPL or MSFT?") -> {"AAPL", "MSFT"}
          [] OTHER -> {}

\* The text of a request is missing or blank.
BlankText(body) ==
    "text" \notin DOMAIN body \/ body["text"] \in {JStr(""), JStr(" "), JStr(" \n")}

\* The strings of the strict ticker shape in the allowed_tickers a request
\* supplies (none when it supplies no list of strings).
SuppliedTickers(body) ==
    LET given == dict_get(body, "allowed_tickers")
    IN  IF given.t = "list" /\ \A i \in DOMAIN given.v : given.v[i].t = "str"
        THEN {given.v[i].v : i \in DOMAIN given.v} \cap {"AAPL", "MSFT"}
        ELSE {}

\* The response is the fixed clarification asking for an uppercase ticker.
AsksForTicker ==
    /\ last.code = 200
    /\ last.body.mode = "CLARIFY"
    /\ last.body.confidence = 6
    /\ last.body.action = JNull
    /\ last.body.clarify.question =
          "Enter an uppercase ticker (e.g., AAPL). Company names are not supported."
    /\ Len(last.body.clarify.choices) = 2

WellFormedBody(body) ==
    /\ body.mode \in {"EXECUTE", "CLARIFY", "NOOP"}
    /\ body.confidence \in 0..10
    /\ body.action # JNull <=> body.mode = "EXECUTE"
    /\ body.clarify # JNull <=> body.mode = "CLARIFY"
    /\ body.message.t \in {"null", "str"}

\* C32: whatever the text of the request and whatever the oracle returns,
\* the request is answered by a well-formed response and never ends in an
\* error.
C32_NeverRaises ==
    Interpreted => (last.code = 200 /\ WellFormedBody(last.body))

Done(s) == last.of[s].pc = "done"

\* Session s found no draft for its pair and sent an INSERT.
InsertedBlind(s) ==
    /\ last.of[s].op = "create_or_reuse_draft"
    /\ Done(s)
    /\ last.of[s].seen = NoEvent
    /\ last.of[s].code \in {200, 500}

\* C34: when create-or-reuse-draft calls for one (case_id, event_type)
\* interleave so that both find no draft before either inserts, the table
\* never holds two DRAFT rows for the pair: the partial unique index rejects
\* the second INSERT, whose request ends in IntegrityError with no row added.
C34_RaceKeepsOneDraft ==
    [][/\ ux_decision_events_one_draft(events')
       /\ \A s \in Sessions :
            (/\ last.of[s].pc = "commit"
             /\ last.of[s].write.kind = "insert"
             /\ last'.of[s].pc = "done"
             /\ first_draft(last.of[s].args.case_id, last.of[s].args.event_type) # {})
               => /\ last'.of[s].code = 500
                  /\ last'.of[s].detail = IntegrityError
                  /\ last'.of[s].event = NoEvent
                  /\ events' = events]_vars

\* Both sessions found no draft; one INSERT was committed, the other rejected.
C34_Witness ==
    /\ \A s \in Sessions : InsertedBlind(s)
    /\ \E s, t \in Sessions :
         /\ last.of[s].code = 200
         /\ last.of[t].code = 500
         /\ last.of[t].detail = IntegrityError
    /\ Cardinality({i \in 1..Len(events) : events[i].status = STATUS_DRAFT}) = 1

\* Session s finalized an event: the payload it validated is the one it read.
Finalized(s) ==
    /\ last.of[s].op = "finalize_event"
    /\ Done(s)
    /\ last.of[s].code = 200

\* C35: a patch and a finalize of one DRAFT event are serialized: an event
\* that a finalize made FINAL holds the payload that finalize validated, so
\* no patch that read the event before the finalize committed writes its
\* merged payload afterwards.
C35_FinalHoldsValidatedPayload ==
    \A s \in Sessions :
        Finalized(s) =>
            /\ events[last.of[s].args.event_id].status = STATUS_FINAL
            /\ events[last.of[s].args.event_id].payload = last.of[s].seen.payload

Patched(s) ==
    /\ last.of[s].op = "patch_draft_event"
    /\ Done(s)
    /\ last.of[s].code = 200

PatchedOnto(payload, first, second) ==
    deep_merge_replace_lists(deep_merge_replace_lists(JObj(payload), first), second).v

\* C36: two patches of one DRAFT event that both read the same payload lose
\* no update: the event then holds the payload that applying the two patches
\* one after the other, in one order or the other, gives.
C36_NoLostUpdate ==
    \A s, t \in Sessions :
        (/\ s # t
         /\ Patched(s)
         /\ Patched(t)
         /\ last.of[s].args.event_id = last.of[t].args.event_id
         /\ last.of[s].seen.payload = last.of[t].seen.payload)
           => events[last.of[s].args.event_id].payload
                \in {PatchedOnto(last.of[s].seen.payload, last.of[s].args.body, last.of[t].args.body),
                     PatchedOnto(last.of[s].seen.payload, last.of[t].args.body, last.of[s].args.body)}

\* ---------------------------------------------------------------------
\* The two paths to FINAL: properties
\* ---------------------------------------------------------------------

\* The event holds a payload complete but for one object field (a delta of
\* THESIS_UPDATE, the constraints of RESIZE) whose members are not as the
\* schema asks.
Shallow(de) ==
    de.payload \in ShallowPayloads(de.event_type)

ShallowKeys(de) ==
    {k \in DOMAIN de.payload : de.payload[k] \in ShallowDeltas \cup ShallowConstraints}

FinalizeTried ==
    /\ last.op = "finalize_event"
    /\ last.code # 404

\* C37: a drivers_delta, risks_delta or triggers_delta of THESIS_UPDATE that
\* is an object without add or remove, or with members that are no lists of
\* strings, and a constraints of RESIZE that lacks a boolean member, are not
\* reported as missing; finalize of the payload, complete otherwise, is
\* refused with a validation error (400) and no missing_fields, and the
\* event stays DRAFT.
C37_TwoTierDeltaCheck ==
    /\ \A i \in 1..Len(events) :
          Shallow(events[i]) =>
              /\ events[i].status = STATUS_DRAFT
              /\ compute_missing_fields(events[i].event_type, events[i].payload) = <<>>
    /\ (last.op = "create_or_reuse_draft" /\ last.code = 200 /\ Shallow(last.event))
          => last.missing_fields = <<>>
    /\ (FinalizeTried /\ Shallow(events[last.args.event_id]))
          => /\ last.code = 400
             /\ last.detail # MissingFieldsError
             /\ last.missing_fields = <<>>
             /\ \E k \in ShallowKeys(events[last.args.event_id]) :
                    \E n \in 1..Len(last.detail) :
                        SubSeq(last.detail, n, n + Len(k) - 1) = k

\* Finalize was refused for a THESIS_UPDATE whose drivers_delta has no add.
C37_Witness ==
    /\ FinalizeTried
    /\ last.code = 400
    /\ Shallow(events[last.args.event_id])
    /\ events[last.args.event_id].event_type = "THESIS_UPDATE"
    /\ "drivers_delta" \in ShallowKeys(events[last.args.event_id])
    /\ "add" \notin DOMAIN events[last.args.event_id].payload["drivers_delta"].v
    /\ events[last.args.event_id].status = STATUS_DRAFT

SamePayload(de, other) ==
    /\ de.event_type = other.event_type
    /\ de.payload = other.payload

\* C38: strict insert and draft-then-finalize admit the same payloads: when
\* the strict insert of a payload has succeeded, finalize of a DRAFT of the
\* same event type holding it succeeds, and when finalize has succeeded,
\* the strict insert of the payload it made FINAL succeeds.
C38_SamePayloadsAdmitted ==
    [][/\ \A id \in 1..Len(events) :
            (/\ last.op = "add_event"
             /\ last.code = 200
             /\ events[id].status = STATUS_DRAFT
             /\ SamePayload(events[id], last.event)
             /\ finalize_event(events[id].case_id, id))
               => last'.code = 200
       /\ (/\ last.op = "finalize_event"
           /\ last.code = 200
           /\ add_event("c1", Envelope(IsoZ, JStr(last.event.event_type),
                                       JObj(last.event.payload))))
             => last'.code = 200]_vars

\* ---------------------------------------------------------------------
\* Drafts after FINAL, and the identity of an event
\* ---------------------------------------------------------------------

DraftAnswered ==
    /\ last'.op = "create_or_reuse_draft"
    /\ last'.code = 200

\* C39: create-or-reuse-draft neither returns nor changes a FINAL event; for
\* a pair (case_id, event_type) without a DRAFT, as after the finalize of
\* its draft, it adds a new DRAFT event under an id no event has, so that a
\* pair holds any number of FINAL events and at most one DRAFT.
C39_FinalNeverReused ==
    [][DraftAnswered =>
        /\ \A i \in 1..Len(events) :
              events[i].status = STATUS_FINAL
                 => /\ events'[i] = events[i]
                    /\ last'.event.id # i
        /\ last'.event.status = STATUS_DRAFT
        /\ first_draft(last'.event.case_id, last'.event.event_type) = {}
              => /\ last'.event.id \notin {events[i].id : i \in 1..Len(events)}
                 /\ events' = Append(events, last'.event)
        /\ ux_decision_events_one_draft(events')]_vars

\* The draft of a pair was finalized and the next create-or-reuse-draft of
\* the pair was answered with a new DRAFT.
C39_Witness ==
    /\ last.op = "create_or_reuse_draft"
    /\ last.code = 200
    /\ last.event.status = STATUS_DRAFT
    /\ last.event.id \in 1..Len(events)
    /\ events[last.event.id] = last.event
    /\ \E i \in 1..Len(events) :
          /\ i < last.event.id
          /\ events[i].status = STATUS_FINAL
          /\ events[i].case_id = last.event.case_id
          /\ events[i].event_type = last.event.event_type
          /\ events[i].updated_at > events[i].created_at

IdentityOf(de) ==
    <<de.id, de.case_id, de.event_type, de.event_ts, de.created_at>>

\* C40: no request changes the id, case_id, event_type, event_ts or
\* created_at of an event that exists, whatever the seed or the patch holds;
\* keys of a patch named id, status or event_type are keys of the payload.
C40_IdentityFrozen ==
    [][/\ Len(events') >= Len(events)
       /\ \A i \in 1..Len(events) :
             /\ IdentityOf(events'[i]) = IdentityOf(events[i])
             /\ events[i].id = i
       /\ (last'.op = "patch_draft_event" /\ last'.code = 200)
             => /\ last'.event.status = STATUS_DRAFT
                /\ last'.event = events'[last'.args.event_id]
                /\ IdentityOf(last'.event) = IdentityOf(events[last'.args.event_id])]_vars

\* A patch with the keys id, status and event_type was applied to a DRAFT
\* RISK_NOTE event, which is the same event still; an event was finalized
\* and a seed was merged into a draft.
C40_Witness ==
    /\ last.op = "patch_draft_event"
    /\ last.code = 200
    /\ {"id", "status", "event_type"} \subseteq DOMAIN last.event.payload
    /\ last.event.payload["event_type"] = JStr("RESIZE")
    /\ events[last.event.id] = last.event
    /\ last.event.event_type = "RISK_NOTE"
    /\ last.event.status = STATUS_DRAFT
    /\ last.event.id = last.args.event_id
    /\ last.event.updated_at > last.event.created_at

====
